---- MODULE Spec2Model ----
(***************************************************************************)
(* Family-wellness backend: screen-time extension requests, the tool       *)
(* client behind its circuit breaker, the AI memory store and the chat     *)
(* pipeline.  Each part has its own specification over the shared state.   *)
(***************************************************************************)
EXTENDS Integers, Sequences, FiniteSets, TLC

(***************************************************************************)
(* Bounds of the model.                                                    *)
(***************************************************************************)
MaxMinutes == 1
MaxInFlight == 2
MaxFailures == 7
MaxTime == 70
TickStep == 10
MaxRows == 2
MaxCandidates == 3
MaxScore == 2
MaxPool == 2
MaxListed == 2
MaxTools == 2

(***************************************************************************)
(* Python None / SQL NULL.  Integer columns use NoMinutes for NULL.        *)
(***************************************************************************)
NoneVal == "None"
NoMinutes == -1

(***************************************************************************)
(* Part 1: screen-time rules and extension requests.                       *)
(***************************************************************************)
VARIABLES users, rules, requests, resp

extVars == <<users, rules, requests, resp>>

\* Part 2 (tool client and circuit breaker): the breaker's _state,
\* _failure_count and _opened, the monotonic clock, the HTTP requests in
\* flight, and what the last step was and what the last call gave its caller;
\* whether any call of the current run of failures had sent its request.
VARIABLES cb_state, cb_failure_count, cb_opened, now, inflight, lastStep, lastResult,
          lastResponse, streak, trials, streak_contacted

cbVars == <<cb_state, cb_failure_count, cb_opened, now, inflight, lastStep, lastResult,
            lastResponse, streak, trials, streak_contacted>>

\* Part 3 (AI memory): the rows of table ai_memory, and a search in progress:
\* its position, its arguments, how many candidates the vector store has
\* handed over, the list being filtered, the list returned, and which rows
\* written by the chat pipeline for the caller came back as candidates.
VARIABLES ai_memory, mem_pc, mem_args, mem_fetched, relevant_memories, mem_result,
          mem_handed

memVars == <<ai_memory, mem_pc, mem_args, mem_fetched, relevant_memories, mem_result,
             mem_handed>>

\* Part 4 (chat pipeline): the module-level structured-output client, and one
\* run of process_chat_message_hybrid: the step it is about to take, its
\* user_info, context_text, tool_call_decision (as the model gave it and as
\* the pipeline uses it), tool_result_str, the tool information put into the
\* final prompt, final_ai_response, the value returned, the steps taken and
\* those that failed, the HTTP POSTs the run has caused, and the calls of
\* store_memory the run has made, in order.
VARIABLES aclient_instructor, chat_pc, user_info, context_text, decision_raw,
          tool_call_decision, tool_result_str, final_tool_info, final_ai_response,
          chat_returned, chat_steps, chat_failed, chat_posts, chat_store_calls

chatVars == <<aclient_instructor, chat_pc, user_info, context_text, decision_raw,
              tool_call_decision, tool_result_str, final_tool_info, final_ai_response,
              chat_returned, chat_steps, chat_failed, chat_posts, chat_store_calls>>

\* Part 5 (users and families): the rows of tables "user" and "family", and
\* the last call of create_user, update_user or create_family_with_owner with
\* its input, the tables it found and what it gave its caller.
VARIABLES user_table, family_table, crud_call

crudVars == <<user_table, family_table, crud_call>>

\* Part 6 (connection pool): the connections of the shared pool that are free,
\* and for each HTTP request where it is, the token it carries, how many
\* connections it holds, how many it has taken and the status it answers.
VARIABLES pool_free, req

poolVars == <<pool_free, req>>

\* Part 7 (read endpoints): the last call of GET /requests or
\* GET /users/{user_id} with its arguments and its answer.
VARIABLES read_call

readVars == <<read_call>>

\* Part 8 (tool registry): the content of tools_config.json, the module's
\* _TOOLS_REGISTRY, and whether load_tools_registry has run since the file
\* was last written.
VARIABLES config_file, tools_registry, registry_loaded

regVars == <<config_file, tools_registry, registry_loaded>>

\* The variables of the parts after part 4.
otherVars == <<crudVars, poolVars, readVars, regVars>>

notExtVars == <<cbVars, memVars, chatVars, otherVars>>

notCbVars == <<extVars, memVars, chatVars, otherVars>>

notMemVars == <<extVars, cbVars, chatVars, otherVars>>

notCrudVars == <<extVars, cbVars, memVars, chatVars, poolVars, readVars, regVars>>

notPoolVars == <<extVars, cbVars, memVars, chatVars, crudVars, readVars, regVars>>

notReadVars == <<extVars, cbVars, memVars, chatVars, crudVars, poolVars, regVars>>

notRegVars == <<extVars, cbVars, memVars, chatVars, crudVars, poolVars, readVars>>

vars == <<extVars, cbVars, memVars, chatVars, otherVars>>

PENDING == "pending"
APPROVED == "approved"
DENIED == "denied"
RequestStatus == {PENDING, APPROVED, DENIED}

UserIds == {"p1", "p2", "q1", "k1", "z1"}
RuleIds == {"rule1"}
UnknownRule == "rule0"
RequestIds == {"r1"}

\* The user table the endpoints read: two responders of family f1, an admin of
\* another family, the child the rule applies to, and an inactive parent.
InitialUsers ==
    [u \in UserIds |->
        CASE u = "p1" -> [role |-> "parent",    family_id |-> "f1", is_active |-> TRUE]
          [] u = "p2" -> [role |-> "caregiver", family_id |-> "f1", is_active |-> TRUE]
          [] u = "q1" -> [role |-> "admin",     family_id |-> "f2", is_active |-> TRUE]
          [] u = "k1" -> [role |-> "child",     family_id |-> "f1", is_active |-> TRUE]
          [] u = "z1" -> [role |-> "parent",    family_id |-> "f1", is_active |-> FALSE]]

InitialRules ==
    [r \in RuleIds |->
        [user_id |-> "k1", family_id |-> "f1",
         can_request_extension |-> TRUE, extension_limit_minutes |-> NoMinutes]]

Minutes == 0..MaxMinutes
OptMinutes == {NoMinutes} \cup Minutes
Notes == {NoneVal, "note"}

\* An HTTP answer is its status code; Passed means the check raised nothing.
Passed == 0

\* get_current_active_user: 400 for an inactive user.
get_current_active_user(u) ==
    IF ~users[u].is_active THEN 400 ELSE Passed

\* get_current_active_parent_or_admin: the active check first, then the role.
allowed_roles == {"parent", "caregiver", "admin"}

get_current_active_parent_or_admin_AnyRole(u) == get_current_active_user(u)

get_current_active_parent_or_admin(u) ==
    IF get_current_active_user(u) # Passed THEN get_current_active_user(u)
    ELSE IF users[u].role \notin allowed_roles THEN 403
    ELSE Passed

\* ScreenTimeExtensionRequestUpdate: any RequestStatus is accepted; the
\* validator rejects APPROVED without minutes and clears minutes on DENIED.
RespondBodies ==
    [status : RequestStatus, approved_minutes : OptMinutes, response_note : Notes]

BodyValid(b) == ~(b.status = APPROVED /\ b.approved_minutes = NoMinutes)

check_approved_minutes(b) ==
    IF b.status = DENIED THEN [b EXCEPT !.approved_minutes = NoMinutes] ELSE b

\* update_extension_request_status, lines 280-281: the minutes written.
approved_minutes_value(b) ==
    IF b.status = APPROVED THEN b.approved_minutes ELSE NoMinutes

\* The parameters of the UPDATE, lines 294-297.
UpdateParams(b) ==
    [status |-> b.status, approved_minutes |-> approved_minutes_value(b),
     response_note |-> b.response_note]

\* The WHERE clause of the conditional UPDATE: id = %s AND status = 'pending'.
UpdateMatches_NoStatusGuard(rid) == rid \in DOMAIN requests

UpdateMatches(rid) == rid \in DOMAIN requests /\ requests[rid].status = PENDING

NoParams == [status |-> PENDING, approved_minutes |-> NoMinutes, response_note |-> NoneVal]

\* A responder's call of PUT /requests/{request_id}/respond: where it stands
\* (pc), the request it is about, the parameters of its UPDATE, the status
\* code it answers with, and whether it passed the 'still pending' pre-check
\* together with another call on the same request before either had written
\* (raced).
IdleResp == [pc |-> "idle", rid |-> NoneVal, params |-> NoParams, raced |-> FALSE,
             matched |-> "unset", code |-> Passed]

ExtInit ==
    /\ users = InitialUsers
    /\ rules = InitialRules
    /\ requests = <<>>
    /\ resp = [u \in UserIds |-> IdleResp]

\* POST /requests: create_extension_request_endpoint + create_extension_request.
\* The answer is 201 or the status code of the refusal.
CreateBodies ==
    [user_id : {"k1", "p1"}, rule_id : RuleIds \cup {UnknownRule},
     requested_minutes : 1..MaxMinutes, status : {PENDING, APPROVED}]

NewRequest_BodyStatus(b) ==
    [user_id |-> b.user_id, rule_id |-> b.rule_id,
     requested_minutes |-> b.requested_minutes, status |-> b.status,
     responded_at |-> NoneVal, responded_by_id |-> NoneVal,
     approved_minutes |-> NoMinutes, response_note |-> NoneVal]

NewRequest(b) ==
    [user_id |-> b.user_id, rule_id |-> b.rule_id,
     requested_minutes |-> b.requested_minutes, status |-> PENDING,
     responded_at |-> NoneVal, responded_by_id |-> NoneVal,
     approved_minutes |-> NoMinutes, response_note |-> NoneVal]

CreateCheck_AnyRuleOwner(u, b) ==
    IF get_current_active_user(u) # Passed THEN get_current_active_user(u)
    ELSE IF b.user_id # u THEN 403
    ELSE IF b.rule_id \notin DOMAIN rules THEN 404
    ELSE IF ~rules[b.rule_id].can_request_extension THEN 400
    ELSE Passed

CreateCheck(u, b) ==
    IF get_current_active_user(u) # Passed THEN get_current_active_user(u)
    ELSE IF b.user_id # u THEN 403
    ELSE IF b.rule_id \notin DOMAIN rules \/ rules[b.rule_id].user_id # u THEN 404
    ELSE IF ~rules[b.rule_id].can_request_extension THEN 400
    ELSE Passed

CreateRequest(u, rid, b) ==
    /\ rid \notin DOMAIN requests
    /\ IF CreateCheck(u, b) # Passed
         THEN UNCHANGED requests
         ELSE requests' = (rid :> NewRequest(b)) @@ requests
    /\ UNCHANGED <<users, rules, resp>>
    /\ UNCHANGED notExtVars

\* PUT /rules/{rule_id}: update_screen_time_rule_endpoint + update_screen_time_rule.
\* rule_in carries the fields the caller set (exclude_unset); Unset leaves
\* the column alone.
Unset == -2

RuleUpdates ==
    {ri \in [extension_limit_minutes : {Unset} \cup OptMinutes,
             can_request_extension : {"unset", "true", "false"}] :
        ri.extension_limit_minutes = Unset \/ ri.can_request_extension = "unset"}

ApplyRuleUpdate(rule, rule_in) ==
    [rule EXCEPT
        !.extension_limit_minutes =
            IF rule_in.extension_limit_minutes = Unset THEN @
            ELSE rule_in.extension_limit_minutes,
        !.can_request_extension =
            IF rule_in.can_request_extension = "unset" THEN @
            ELSE rule_in.can_request_extension = "true"]

UpdateRuleCheck(u, rule_id) ==
    IF get_current_active_parent_or_admin(u) # Passed
      THEN get_current_active_parent_or_admin(u)
    ELSE IF rule_id \notin DOMAIN rules THEN 404
    ELSE IF rules[rule_id].family_id # users[u].family_id THEN 403
    ELSE Passed

UpdateRule(u, rule_id, rule_in) ==
    /\ IF UpdateRuleCheck(u, rule_id) # Passed
         THEN UNCHANGED rules
         ELSE rules' = [rules EXCEPT ![rule_id] = ApplyRuleUpdate(@, rule_in)]
    /\ UNCHANGED <<users, requests, resp>>
    /\ UNCHANGED notExtVars

\* PUT /requests/{request_id}/respond, first part (lines 344-358): the auth
\* dependency, the body validation, the fetch of the request, the family check
\* and the 'still pending' pre-check.
RespondPreCheck(u, rid, raw) ==
    IF get_current_active_parent_or_admin(u) # Passed
      THEN get_current_active_parent_or_admin(u)
    ELSE IF ~BodyValid(raw) THEN 422
    ELSE IF rid \notin DOMAIN requests THEN 404
    ELSE IF users[requests[rid].user_id].family_id # users[u].family_id THEN 403
    ELSE IF requests[rid].status # PENDING THEN 409
    ELSE Passed

PreCheckPassed(v, rid) == resp[v].pc \in {"rule", "update"} /\ resp[v].rid = rid

RespondFetch(u, rid, raw) ==
    /\ resp[u].pc = "idle"
    /\ IF RespondPreCheck(u, rid, raw) # Passed
         THEN UNCHANGED resp
         ELSE resp' = [v \in UserIds |->
                  IF v = u
                    THEN [pc |-> IF raw.status = APPROVED THEN "rule" ELSE "update",
                          rid |-> rid,
                          params |-> UpdateParams(check_approved_minutes(raw)),
                          raced |-> \E w \in UserIds \ {u} : PreCheckPassed(w, rid),
                          matched |-> "unset",
                          code |-> Passed]
                  ELSE IF PreCheckPassed(v, rid)
                    THEN [resp[v] EXCEPT !.raced = TRUE]
                  ELSE resp[v]]
    /\ UNCHANGED <<users, rules, requests>>
    /\ UNCHANGED notExtVars

\* Lines 360-365: an approval is checked against the rule's limit as the rule
\* stands when this statement runs.
ExceedsLimit(rule_id, minutes) ==
    /\ rule_id \in DOMAIN rules
    /\ rules[rule_id].extension_limit_minutes # NoMinutes
    /\ minutes > rules[rule_id].extension_limit_minutes

RespondCheckRule(u) ==
    /\ resp[u].pc = "rule"
    /\ IF ExceedsLimit(requests[resp[u].rid].rule_id, resp[u].params.approved_minutes)
         THEN resp' = [resp EXCEPT ![u].pc = "done", ![u].code = 400,
                                   ![u].params = NoParams]
         ELSE resp' = [resp EXCEPT ![u].pc = "update"]
    /\ UNCHANGED <<users, rules, requests>>
    /\ UNCHANGED notExtVars

\* update_extension_request_status: the conditional UPDATE.  When no row
\* matches, the 409/404 raised inside the try block is caught by the
\* function's own `except Exception` and leaves as 500.
UpdatedRow(row, u, p) ==
    [row EXCEPT !.status = p.status,
                !.responded_at = "now",
                !.responded_by_id = u,
                !.approved_minutes = p.approved_minutes,
                !.response_note = p.response_note]

RespondUpdate(u) ==
    /\ resp[u].pc = "update"
    /\ IF UpdateMatches(resp[u].rid)
         THEN /\ requests' = [requests EXCEPT
                                 ![resp[u].rid] = UpdatedRow(@, u, resp[u].params)]
              /\ resp' = [resp EXCEPT ![u].pc = "done", ![u].code = 200,
                                      ![u].matched = "row", ![u].params = NoParams]
         ELSE /\ UNCHANGED requests
              /\ resp' = [resp EXCEPT ![u].pc = "done", ![u].code = 500,
                                      ![u].matched = "no_row", ![u].params = NoParams]
    /\ UNCHANGED <<users, rules>>
    /\ UNCHANGED notExtVars

\* Lines 375-377: the connection block ends and the endpoint answers.
RespondReturn(u) ==
    /\ resp[u].pc = "done"
    /\ resp' = [resp EXCEPT ![u] = IdleResp]
    /\ UNCHANGED <<users, rules, requests>>
    /\ UNCHANGED notExtVars

ExtNext ==
    \/ \E u \in UserIds, rid \in RequestIds, b \in CreateBodies : CreateRequest(u, rid, b)
    \/ \E u \in UserIds, r \in RuleIds \cup {UnknownRule}, ri \in RuleUpdates : UpdateRule(u, r, ri)
    \/ \E u \in UserIds, rid \in RequestIds, raw \in RespondBodies : RespondFetch(u, rid, raw)
    \/ \E u \in UserIds : RespondCheckRule(u)
    \/ \E u \in UserIds : RespondUpdate(u)
    \/ \E u \in UserIds : RespondReturn(u)

(***************************************************************************)
(* Part 2: execute_tool behind the circuit breaker.                        *)
(***************************************************************************)
FAILURE_THRESHOLD == 5
RECOVERY_TIMEOUT == 30

\* The registry as load_tools_registry builds it from the config's tools
\* array: name -> server_url and actions.  A server_url is its path segments
\* (the empty sequence is the empty string validate_tool_config accepts).
ToolsRegistry ==
    [screen_tool |->
        [server_url |-> <<"screen-tool">>,
         actions |-> [get_screen_time_usage |->
                        [required_params |-> {"user_id"},
                         optional_params |-> {"start_date"}]]],
     chore_tool |->
        [server_url |-> <<"chore-tool", "execute">>,
         actions |-> [get_chore_status |->
                        [required_params |-> {"chore_id"},
                         optional_params |-> {}]]],
     draft_tool |->
        [server_url |-> <<>>,
         actions |-> [ping |-> [required_params |-> {}, optional_params |-> {}]]]]

\* get_tool_details(tool_name, action_name): None for an unknown tool or
\* action, else the action's details with the tool's server_url.  An empty
\* action name fails the test `if action_name:` (line 218) and the function
\* returns the tool's whole configuration, which has a server_url and no
\* required_params or optional_params of its own.
NoDetails == [found |-> FALSE, tool |-> NoneVal, action |-> NoneVal, server_url |-> <<>>,
              required_params |-> {}, optional_params |-> {}]

get_tool_details(tool_name, action_name) ==
    IF tool_name \notin DOMAIN ToolsRegistry THEN NoDetails
    ELSE IF action_name = ""
    THEN [found |-> TRUE, tool |-> tool_name, action |-> action_name,
          server_url |-> ToolsRegistry[tool_name].server_url,
          required_params |-> {}, optional_params |-> {}]
    ELSE IF action_name \notin DOMAIN ToolsRegistry[tool_name].actions THEN NoDetails
    ELSE [found |-> TRUE, tool |-> tool_name, action |-> action_name,
          server_url |-> ToolsRegistry[tool_name].server_url,
          required_params |->
              ToolsRegistry[tool_name].actions[action_name].required_params,
          optional_params |->
              ToolsRegistry[tool_name].actions[action_name].optional_params]

\* What a call of execute_tool gives its caller: a returned value (exc "none")
\* or a raised exception with, for HTTPException, its status code.
Returned == [exc |-> "none", status |-> 200]
Raised(code) == [exc |-> "HTTPException", status |-> code]
CircuitBreakerError == [exc |-> "CircuitBreakerError", status |-> 0]
TypeError == [exc |-> "TypeError", status |-> 0]
InFlight == [exc |-> "pending", status |-> 0]
NoResult == [exc |-> "nothing", status |-> 0]

\* The keyword arguments of a call.  execute_tool(tool_name, action, arguments,
\* timeout=10): a call that passes no action cannot be bound to the signature.
ToolKwargs ==
    {[tool_name |-> "screen_tool", has_action |-> TRUE, action |-> "get_screen_time_usage",
      arguments |-> {"user_id", "device"}],
     [tool_name |-> "chore_tool", has_action |-> TRUE, action |-> "get_chore_status",
      arguments |-> {"chore_id"}],
     [tool_name |-> "screen_tool", has_action |-> TRUE, action |-> "get_screen_time_usage",
      arguments |-> {"start_date"}],
     [tool_name |-> "screen_tool", has_action |-> TRUE, action |-> "get_chore_status",
      arguments |-> {"chore_id"}],
     [tool_name |-> "get_chore_status", has_action |-> TRUE, action |-> "get_chore_status",
      arguments |-> {"chore_id"}],
     [tool_name |-> "draft_tool", has_action |-> TRUE, action |-> "ping",
      arguments |-> {}],
     [tool_name |-> "screen_tool", has_action |-> TRUE, action |-> "",
      arguments |-> {"user_id"}],
     [tool_name |-> "get_chore_status", has_action |-> FALSE, action |-> NoneVal,
      arguments |-> {"chore_id"}]}

BindsToSignature(kw) == kw.has_action

\* Lines 59-82: the checks made before any request is built.
PreRequestCheck(kw) ==
    LET d == get_tool_details(kw.tool_name, kw.action) IN
    IF ~d.found THEN Raised(404)
    ELSE IF d.server_url = <<>> THEN Raised(500)
    ELSE IF d.required_params \ kw.arguments # {} THEN Raised(400)
    ELSE Returned

\* Lines 84-95 and 104: the filtered arguments and the URL posted to.
filtered_arguments(kw) ==
    LET d == get_tool_details(kw.tool_name, kw.action) IN
    {k \in kw.arguments : k \in d.required_params \cup d.optional_params}

full_url(server_url, action) ==
    IF server_url[Len(server_url)] = "execute"
      THEN Append(server_url, action)
      ELSE server_url \o <<"execute", action>>

HttpPost(kw) ==
    [url |-> full_url(get_tool_details(kw.tool_name, kw.action).server_url, kw.action),
     params |-> filtered_arguments(kw)]

PostsOf(kws) == {HttpPost(kw) : kw \in {k \in kws : k.has_action /\ PreRequestCheck(k) = Returned}}

\* What the tool server (or the network) does with a request.
Responses ==
    {[kind |-> "response", status_code |-> 200, body |-> "json"],
     [kind |-> "response", status_code |-> 200, body |-> "not_json"],
     [kind |-> "response", status_code |-> 200, body |-> "not_utf8"],
     [kind |-> "response", status_code |-> 404, body |-> "json"],
     [kind |-> "response", status_code |-> 503, body |-> "json"],
     [kind |-> "timeout", status_code |-> 0, body |-> "none"],
     [kind |-> "request_error", status_code |-> 0, body |-> "none"]}

NoResponse == [kind |-> "none", status_code |-> 0, body |-> "none"]

\* Lines 98-152.  The HTTPException raised at line 117 for a status >= 400 is
\* raised inside the try block, and `except Exception` (line 147) turns it
\* into a 500.  response.json() raises json.JSONDecodeError on text that is
\* not JSON (line 140: 502) and UnicodeDecodeError on bytes that are not
\* text at all, which only `except Exception` catches (500).
ResponseResult(r) ==
    IF r.kind = "timeout" THEN Raised(504)
    ELSE IF r.kind = "request_error" THEN Raised(502)
    ELSE IF r.status_code >= 400 THEN Raised(500)
    ELSE IF r.body = "not_json" THEN Raised(502)
    ELSE IF r.body = "not_utf8" THEN Raised(500)
    ELSE Returned

\* The @circuit decorator (failure_threshold=5, recovery_timeout=30): the
\* breaker of the circuitbreaker package the decorator installs.
\* `opened`: the state is open and the recovery timeout has not elapsed; a
\* call is refused exactly then.
open_remaining_Late == (cb_opened + RECOVERY_TIMEOUT + TickStep) - now

open_remaining == (cb_opened + RECOVERY_TIMEOUT) - now

opened == cb_state = "open" /\ open_remaining > 0

half_open == cb_state = "open" /\ open_remaining <= 0

\* is_failure: the decorator is given no expected_exception, so every
\* exception that leaves the function body counts.
is_failure_RequestErrorsOnly(result) ==
    result.exc = "HTTPException" /\ result.status \in {502, 504}

is_failure(result) == result.exc # "none"

\* __call_failed: count the failure; at the threshold open and stamp the time.
call_failed_OffByOne ==
    /\ cb_failure_count' = cb_failure_count + 1
    /\ IF cb_failure_count' > FAILURE_THRESHOLD
         THEN cb_state' = "open" /\ cb_opened' = now
         ELSE UNCHANGED <<cb_state, cb_opened>>

call_failed ==
    /\ cb_failure_count' = cb_failure_count + 1
    /\ IF cb_failure_count' >= FAILURE_THRESHOLD
         THEN cb_state' = "open" /\ cb_opened' = now
         ELSE UNCHANGED <<cb_state, cb_opened>>

\* __call_succeeded: close and reset.
call_succeeded ==
    /\ cb_state' = "closed"
    /\ cb_failure_count' = 0
    /\ UNCHANGED cb_opened

\* The run of failed calls the callers have seen since the last call that
\* returned (a refused call neither ran nor returned).
Observe(result) ==
    /\ lastResult' = result
    /\ streak' = IF result.exc = "none" THEN 0
                 ELSE IF result.exc \in {"HTTPException", "TypeError"} THEN streak + 1
                 ELSE streak

\* Whether a call of the current run of failures had sent its request when it
\* failed (posted: this call got as far as the POST).
ObserveContact(result, posted) ==
    streak_contacted' = IF result.exc = "none" THEN FALSE
                        ELSE IF result.exc \in {"HTTPException", "TypeError"} /\ posted THEN TRUE
                        ELSE streak_contacted

\* How the calls that ended while the circuit was half-open have ended so far.
ObserveTrial(result) ==
    trials' = IF ~half_open THEN trials
              ELSE IF result.exc = "none" THEN trials \cup {"succeeded"}
              ELSE IF result.exc \in {"HTTPException", "TypeError"} THEN trials \cup {"failed"}
              ELSE trials

CbInit ==
    /\ cb_state = "closed"
    /\ cb_failure_count = 0
    /\ cb_opened = 0
    /\ now = 0
    /\ inflight = <<>>
    /\ lastStep = "init"
    /\ lastResult = NoResult
    /\ lastResponse = NoResponse
    /\ streak = 0
    /\ trials = {}
    /\ streak_contacted = FALSE

\* A call of execute_tool up to the point where it raises or has its request
\* on the wire.
ExecuteToolCall(kw) ==
    /\ cb_failure_count + Len(inflight) < MaxFailures
    /\ lastStep' = "call"
    /\ lastResponse' = NoResponse
    /\ IF opened
         THEN /\ Observe(CircuitBreakerError)
              /\ UNCHANGED <<trials, streak_contacted>>
              /\ UNCHANGED <<cb_state, cb_failure_count, cb_opened, inflight>>
       ELSE IF ~BindsToSignature(kw)
         THEN /\ IF is_failure(TypeError) THEN call_failed ELSE call_succeeded
              /\ Observe(TypeError)
              /\ ObserveTrial(TypeError)
              /\ ObserveContact(TypeError, FALSE)
              /\ UNCHANGED inflight
       ELSE IF PreRequestCheck(kw) # Returned
         THEN /\ IF is_failure(PreRequestCheck(kw)) THEN call_failed ELSE call_succeeded
              /\ Observe(PreRequestCheck(kw))
              /\ ObserveTrial(PreRequestCheck(kw))
              /\ ObserveContact(PreRequestCheck(kw), FALSE)
              /\ UNCHANGED inflight
       ELSE /\ Len(inflight) < MaxInFlight
            /\ inflight' = Append(inflight, HttpPost(kw))
            /\ Observe(InFlight)
            /\ UNCHANGED <<trials, streak_contacted>>
            /\ UNCHANGED <<cb_state, cb_failure_count, cb_opened>>
    /\ UNCHANGED now
    /\ UNCHANGED notCbVars

RemoveAt(q, i) == SubSeq(q, 1, i - 1) \o SubSeq(q, i + 1, Len(q))

\* The request's outcome arrives and the call returns or raises.
ExecuteToolComplete(i, r) ==
    /\ i \in 1..Len(inflight)
    /\ lastStep' = "complete"
    /\ lastResponse' = r
    /\ inflight' = RemoveAt(inflight, i)
    /\ IF is_failure(ResponseResult(r)) THEN call_failed ELSE call_succeeded
    /\ Observe(ResponseResult(r))
    /\ ObserveTrial(ResponseResult(r))
    /\ ObserveContact(ResponseResult(r), TRUE)
    /\ UNCHANGED now
    /\ UNCHANGED notCbVars

\* time.monotonic() advances.
Tick ==
    /\ now + TickStep <= MaxTime
    /\ now' = now + TickStep
    /\ lastStep' = "tick"
    /\ UNCHANGED <<cb_state, cb_failure_count, cb_opened, inflight, lastResult,
                   lastResponse, streak, trials, streak_contacted>>
    /\ UNCHANGED notCbVars

(***************************************************************************)
(* Part 3: the AI memory (ai/memory.py).                                   *)
(***************************************************************************)
\* Values of an id: a UUID object, a string, or nothing (None / key absent).
Uuid(v) == [t |-> "uuid", v |-> v]
StrVal(v) == [t |-> "str", v |-> v]
Absent == [t |-> "none", v |-> "None"]

\* Python's str(): the canonical text of a UUID, a string itself, "None".
Str(x) == [t |-> "str", v |-> x.v]

\* Python's truth value: None and the empty string are false.
Truthy(x) == x.t = "uuid" \/ (x.t = "str" /\ x.v # "")

\* The callers: a user and the family the user belongs to.
Tenants == {[user_id |-> Uuid("u1"), family_id |-> Uuid("f1")],
            [user_id |-> Uuid("u2"), family_id |-> Uuid("f2")]}

\* The metadata argument of store_memory: None or a dict.
NoMeta == [kind |-> "none", user_id |-> Absent, family_id |-> Absent]
Dict(u, f) == [kind |-> "dict", user_id |-> u, family_id |-> f]

MetadataArgs(t) ==
    {NoMeta,
     Dict(Str(t.user_id), Str(t.family_id)),
     Dict(t.user_id, t.family_id)}

\* json.dumps raises TypeError on a UUID object.
json_serializable(m) == m.user_id.t # "uuid" /\ m.family_id.t # "uuid"

\* Lines 177-185.
serializable_metadata(m) ==
    IF m.kind = "none" THEN NoMeta
    ELSE IF json_serializable(m) THEN m
    ELSE NoMeta

\* The calls of store_memory made by process_chat_message_hybrid pass no
\* metadata (service.py lines 216-222); other calls may.
PipelineSources == {"user_chat", "ai_chat", "system_tool_interaction"}
OtherSources == {"import"}

PipelineStore(t, text, source) ==
    [tenant |-> t, text |-> text, metadata |-> NoMeta, source |-> source]

StoreCalls ==
    {PipelineStore(t, x, "user_chat") : t \in Tenants, x \in {"hello", ""}}
    \cup
    {PipelineStore(t, x, "ai_chat") : t \in Tenants, x \in {"reply"}}
    \cup
    UNION {{[tenant |-> t, text |-> "hello", metadata |-> m, source |-> s] :
               m \in MetadataArgs(t), s \in OtherSources} : t \in Tenants}

StoreOutcomes == {"stored", "embedding_error", "insert_error"}

Row(c) ==
    [user_id |-> c.tenant.user_id, family_id |-> c.tenant.family_id, text |-> c.text,
     metadata |-> serializable_metadata(c.metadata), source |-> c.source]

NoRow ==
    [user_id |-> Absent, family_id |-> Absent, text |-> "", metadata |-> NoMeta,
     source |-> NoneVal]

\* A candidate of the similarity search: a document, its score, and the row
\* of ai_memory it was read from (NoRow for anything else in the store).
Scores == 1..MaxScore

ForeignMetadata ==
    ({Dict(u, f) : u \in {StrVal("u1"), StrVal("u2"), StrVal(""), Absent},
                   f \in {StrVal("f1"), StrVal("f2"), Absent}} \ {Dict(Absent, Absent)})
    \cup {NoMeta}

ForeignDocs ==
    {[page_content |-> "other", metadata |-> m, score |-> sc, row |-> NoRow] :
        m \in ForeignMetadata, sc \in Scores}

RowDocs(rows) ==
    {[page_content |-> r.text, metadata |-> r.metadata, score |-> sc, row |-> r] :
        r \in rows, sc \in Scores}

AllRows == {Row(c) : c \in {x \in StoreCalls : x.text # ""}}

AllDocs == ForeignDocs \cup RowDocs(AllRows)

\* What the vector store can hand back now.
Candidates == ForeignDocs \cup RowDocs(ai_memory)

\* Lines 114-116: `doc.metadata or {}` and the two .get() calls.
doc_user_id(doc) == doc.metadata.user_id
doc_family_id(doc) == doc.metadata.family_id

\* Line 119.
BelowThreshold(doc, args) == args.has_threshold /\ doc.score < args.score_threshold

\* Lines 123-124.
PassesTenantFilter_UserOnly(doc, args) ==
    /\ Truthy(doc_user_id(doc))
    /\ Str(doc_user_id(doc)) = Str(args.user_id)

PassesTenantFilter(doc, args) ==
    /\ Truthy(doc_user_id(doc))
    /\ Str(doc_user_id(doc)) = Str(args.user_id)
    /\ Truthy(doc_family_id(doc))
    /\ Str(doc_family_id(doc)) = Str(args.family_id)

\* Lines 125-129: what is appended for a document that passes.
Memory(doc) == doc

\* Line 136: list.sort(key=score, reverse=True), a stable sort.
RECURSIVE InsertByScore(_, _)
InsertByScore(m, sorted) ==
    IF sorted = <<>> THEN <<m>>
    ELSE IF Head(sorted).score >= m.score
           THEN <<Head(sorted)>> \o InsertByScore(m, Tail(sorted))
           ELSE <<m>> \o sorted

RECURSIVE SortByScore(_)
SortByScore(ms) ==
    IF ms = <<>> THEN <<>>
    ELSE InsertByScore(ms[Len(ms)], SortByScore(SubSeq(ms, 1, Len(ms) - 1)))

KValues == {1, 2}

SearchArgs ==
    {[user_id |-> t.user_id, family_id |-> t.family_id, k |-> k,
      has_threshold |-> h, score_threshold |-> MaxScore] :
        t \in Tenants, k \in KValues, h \in BOOLEAN}

NoArgs ==
    [user_id |-> Absent, family_id |-> Absent, k |-> 1, has_threshold |-> FALSE,
     score_threshold |-> MaxScore]

\* A row the chat pipeline wrote for the caller of the search.
PipelineRowOf(row, args) ==
    /\ row \in ai_memory
    /\ row.source \in PipelineSources
    /\ row.user_id = args.user_id
    /\ row.family_id = args.family_id

MemInit ==
    /\ ai_memory = {}
    /\ mem_pc = "idle"
    /\ mem_args = NoArgs
    /\ mem_fetched = 0
    /\ relevant_memories = <<>>
    /\ mem_result = <<>>
    /\ mem_handed = {}

\* store_memory, lines 145-216: nothing for an empty text; any exception of
\* the embedding or of the INSERT is logged and swallowed.
StoredRows_KeepsEmptyText(c, outcome) ==
    IF outcome # "stored" THEN {} ELSE {Row(c)}

StoredRows(c, outcome) ==
    IF c.text = "" \/ outcome # "stored" THEN {} ELSE {Row(c)}

StoreMemory(c, outcome) ==
    /\ Cardinality(ai_memory \cup StoredRows(c, outcome)) <= MaxRows
    /\ ai_memory' = ai_memory \cup StoredRows(c, outcome)
    /\ UNCHANGED <<mem_pc, mem_args, mem_fetched, relevant_memories, mem_result, mem_handed>>
    /\ UNCHANGED notMemVars

\* search_relevant_memories, lines 92-109 and 140-142: the similarity search
\* is asked for k * 3 candidates; an exception gives the empty list.
SearchStart(args, raises) ==
    /\ mem_pc \in {"idle", "done"}
    /\ mem_args' = args
    /\ mem_fetched' = 0
    /\ relevant_memories' = <<>>
    /\ mem_result' = <<>>
    /\ mem_handed' = {}
    /\ mem_pc' = IF raises THEN "done" ELSE "filtering"
    /\ UNCHANGED ai_memory
    /\ UNCHANGED notMemVars

\* Lines 113-132: one pass of the loop over the candidates.
SearchCandidate(doc) ==
    /\ mem_pc = "filtering"
    /\ doc \in Candidates
    /\ mem_fetched < mem_args.k * 3
    /\ mem_fetched < MaxCandidates
    /\ mem_fetched' = mem_fetched + 1
    /\ mem_handed' = IF PipelineRowOf(doc.row, mem_args)
                       THEN mem_handed \cup {doc.row} ELSE mem_handed
    /\ IF ~BelowThreshold(doc, mem_args) /\ PassesTenantFilter(doc, mem_args)
         THEN /\ relevant_memories' = Append(relevant_memories, Memory(doc))
              /\ mem_pc' = IF Len(relevant_memories') >= mem_args.k
                             THEN "sorting" ELSE "filtering"
         ELSE UNCHANGED <<relevant_memories, mem_pc>>
    /\ UNCHANGED <<ai_memory, mem_args, mem_result>>
    /\ UNCHANGED notMemVars

\* Lines 136-138: after the break or the last candidate, sort and return.
SearchReturn ==
    /\ mem_pc \in {"filtering", "sorting"}
    /\ mem_result' = SortByScore(relevant_memories)
    /\ mem_pc' = "done"
    /\ UNCHANGED <<ai_memory, mem_args, mem_fetched, relevant_memories, mem_handed>>
    /\ UNCHANGED notMemVars

\* search_relevant_memories as a whole, for a caller that awaits it: the loop
\* over the candidates (lines 113-132), the sort (136), [] on an exception.
RECURSIVE FilterLoop(_, _, _)
FilterLoop(cands, args, acc) ==
    IF cands = <<>> \/ Len(acc) >= args.k THEN acc
    ELSE FilterLoop(Tail(cands), args,
                    IF ~BelowThreshold(Head(cands), args)
                          /\ PassesTenantFilter(Head(cands), args)
                      THEN Append(acc, Memory(Head(cands)))
                      ELSE acc)

search_relevant_memories(cands, args, raises) ==
    IF raises THEN <<>> ELSE SortByScore(FilterLoop(cands, args, <<>>))

MemoryNext ==
    \/ \E c \in StoreCalls, o \in StoreOutcomes : StoreMemory(c, o)
    \/ \E a \in SearchArgs, raises \in BOOLEAN : SearchStart(a, raises)
    \/ \E d \in AllDocs : SearchCandidate(d)
    \/ SearchReturn

(***************************************************************************)
(* Part 4: the chat pipeline (ai/service.py, process_chat_message_hybrid). *)
(***************************************************************************)
PIPELINE_K == 3

UserInfos ==
    {[id |-> Uuid("u1"), family_id |-> Uuid("f1")],
     [id |-> Absent, family_id |-> Uuid("f1")],
     [id |-> Uuid("u1"), family_id |-> Absent]}

NoUserInfo == [id |-> Absent, family_id |-> Absent]

\* Line 106.
MissingInfo_UserOnly(ui) == ~Truthy(ui.id)

MissingInfo(ui) == ~Truthy(ui.id) \/ ~Truthy(ui.family_id)

\* The strings the function can return besides the model's own text.
ApologyMissingInfo == "I'm sorry, I'm missing some information"
ApologyNoTools == "I'm sorry, my tool processing capability is currently unavailable."
ApologyUnexpected == "I encountered an unexpected issue"
Apologies == {ApologyMissingInfo, ApologyNoTools, ApologyUnexpected}
NotReturned == "not returned"

NoHistory == "No specific relevant history found."

\* Line 120.
ContextOf(memories) == IF memories = <<>> THEN NoHistory ELSE "memories"

\* Lines 147-163: what the structured-output call gives (a tool call, the
\* no-tool call, None, or an exception) and what the pipeline makes of it.
NoToolCall == "no_tool_needed"
ToolCalls == {"get_chore_status", "schedule_screen_time_block"}
DecisionOutcomes == ToolCalls \cup {NoToolCall, "None", "exception"}

DecisionOf(raw) == IF raw \in {"None", "exception"} THEN NoToolCall ELSE raw

\* Line 168.
ToolChosen_Always(decision) == decision # "None"

ToolChosen(decision) == decision # "None" /\ decision # NoToolCall

\* Lines 170-175: the keyword arguments of the pipeline's call of
\* execute_tool: tool_name and arguments, and no action.
tool_args(decision) ==
    IF decision = "get_chore_status" THEN {"chore_id"}
    ELSE {"user_id", "date", "start_time", "end_time", "reason"}

PipelineKwargs(decision) ==
    [tool_name |-> decision, has_action |-> FALSE, action |-> NoneVal,
     arguments |-> tool_args(decision)]

\* Lines 177 and 183.
ToolResultStr_DropsError(result) ==
    IF result = Returned THEN [text |-> "executed successfully", exc |-> "none"]
    ELSE [text |-> "", exc |-> "none"]

ToolResultStr(result) ==
    IF result = Returned THEN [text |-> "executed successfully", exc |-> "none"]
    ELSE [text |-> "Error: Could not execute tool", exc |-> result.exc]

EmptyStr == [text |-> "", exc |-> "none"]

FinalOutcomes == {"reply", "", "exception"}

ChatInitRun ==
    /\ chat_pc = "idle"
    /\ user_info = NoUserInfo
    /\ context_text = ""
    /\ decision_raw = "None"
    /\ tool_call_decision = "None"
    /\ tool_result_str = EmptyStr
    /\ final_tool_info = EmptyStr
    /\ final_ai_response = ""
    /\ chat_returned = NotReturned
    /\ chat_steps = <<>>
    /\ chat_failed = {}
    /\ chat_posts = 0
    /\ chat_store_calls = <<>>

ChatInit == aclient_instructor = "patched" /\ ChatInitRun

\* Lines 102-115: the call; the two early returns.
ChatStart(ui) ==
    /\ chat_pc \in {"idle", "returned"}
    /\ user_info' = ui
    /\ context_text' = ""
    /\ decision_raw' = "None"
    /\ tool_call_decision' = "None"
    /\ tool_result_str' = EmptyStr
    /\ final_tool_info' = EmptyStr
    /\ final_ai_response' = ""
    /\ chat_steps' = <<>>
    /\ chat_failed' = {}
    /\ chat_posts' = 0
    /\ chat_store_calls' = <<>>
    /\ IF MissingInfo(ui)
         THEN chat_returned' = ApologyMissingInfo /\ chat_pc' = "returned"
       ELSE IF aclient_instructor = "None"
         THEN chat_returned' = ApologyNoTools /\ chat_pc' = "returned"
       ELSE chat_returned' = NotReturned /\ chat_pc' = "memory_search"
    /\ UNCHANGED aclient_instructor
    /\ UNCHANGED <<extVars, cbVars, memVars, otherVars>>

\* Lines 119-121: the memory search with k = 3; it gives [] when it fails.
ChatMemorySearch(cands, raises) ==
    /\ chat_pc = "memory_search"
    /\ \A i \in DOMAIN cands : cands[i] \in Candidates
    /\ context_text' =
          ContextOf(search_relevant_memories(cands,
                        [user_id |-> user_info.id, family_id |-> user_info.family_id,
                         k |-> PIPELINE_K, has_threshold |-> FALSE,
                         score_threshold |-> MaxScore],
                        raises))
    /\ chat_steps' = Append(chat_steps, "memory_search")
    /\ chat_failed' = IF raises THEN chat_failed \cup {"memory_search"} ELSE chat_failed
    /\ chat_pc' = "tool_decision"
    /\ UNCHANGED <<aclient_instructor, user_info, decision_raw, tool_call_decision,
                   tool_result_str, final_tool_info, final_ai_response, chat_returned,
                   chat_posts, chat_store_calls>>
    /\ UNCHANGED <<extVars, cbVars, memVars, otherVars>>

\* Lines 147-168: the tool decision, its fallback, and the branch on it.
ChatToolDecision(raw) ==
    /\ chat_pc = "tool_decision"
    /\ decision_raw' = raw
    /\ tool_call_decision' = DecisionOf(raw)
    /\ tool_result_str' = EmptyStr
    /\ chat_steps' = Append(chat_steps, "tool_decision")
    /\ chat_failed' = IF raw = "exception"
                        THEN chat_failed \cup {"tool_decision"} ELSE chat_failed
    /\ chat_pc' = IF ToolChosen(DecisionOf(raw)) THEN "tool_execution"
                  ELSE "final_completion"
    /\ UNCHANGED <<aclient_instructor, user_info, context_text, final_tool_info,
                   final_ai_response, chat_returned, chat_posts, chat_store_calls>>
    /\ UNCHANGED <<extVars, cbVars, memVars, otherVars>>

\* What the pipeline's call of execute_tool gives: the breaker refuses it,
\* or the call cannot be bound, or a check before the request fails, or the
\* request is posted and answered.
PipelineCallPosts(kw) ==
    ~opened /\ BindsToSignature(kw) /\ PreRequestCheck(kw) = Returned

PipelineCallResult(kw, r) ==
    IF opened THEN CircuitBreakerError
    ELSE IF ~BindsToSignature(kw) THEN TypeError
    ELSE IF PreRequestCheck(kw) # Returned THEN PreRequestCheck(kw)
    ELSE ResponseResult(r)

\* Lines 170-183: the tool is executed; any exception becomes an error text.
ChatToolExecution(r) ==
    /\ chat_pc = "tool_execution"
    /\ cb_failure_count < MaxFailures
    /\ LET kw == PipelineKwargs(tool_call_decision)
           result == PipelineCallResult(kw, r)
       IN /\ IF opened
               THEN UNCHANGED <<cb_state, cb_failure_count, cb_opened, trials, streak_contacted>>
               ELSE /\ IF is_failure(result) THEN call_failed ELSE call_succeeded
                    /\ ObserveTrial(result)
                    /\ ObserveContact(result, PipelineCallPosts(kw))
          /\ Observe(result)
          /\ chat_posts' = chat_posts + (IF PipelineCallPosts(kw) THEN 1 ELSE 0)
          /\ lastResponse' = IF PipelineCallPosts(kw) THEN r ELSE NoResponse
          /\ tool_result_str' = ToolResultStr(result)
          /\ chat_failed' = IF result = Returned THEN chat_failed
                            ELSE chat_failed \cup {"tool_execution"}
    /\ lastStep' = "call"
    /\ chat_steps' = Append(chat_steps, "tool_execution")
    /\ chat_pc' = "final_completion"
    /\ UNCHANGED <<now, inflight>>
    /\ UNCHANGED <<aclient_instructor, user_info, context_text, decision_raw,
                   tool_call_decision, final_tool_info, final_ai_response, chat_returned, chat_store_calls>>
    /\ UNCHANGED <<extVars, memVars, otherVars>>

\* Lines 189-213 and 226-229: the final completion gets tool_result_str when
\* it is not empty; an exception ends the run with the generic apology.
ChatFinalCompletion(outcome) ==
    /\ chat_pc = "final_completion"
    /\ final_tool_info' = tool_result_str
    /\ chat_steps' = Append(chat_steps, "final_completion")
    /\ IF outcome = "exception"
         THEN /\ chat_failed' = chat_failed \cup {"final_completion"}
              /\ chat_returned' = ApologyUnexpected
              /\ chat_pc' = "returned"
              /\ UNCHANGED final_ai_response
         ELSE /\ final_ai_response' = outcome
              /\ chat_pc' = "memory_write"
              /\ UNCHANGED <<chat_failed, chat_returned>>
    /\ UNCHANGED <<aclient_instructor, user_info, context_text, decision_raw,
                   tool_call_decision, tool_result_str, chat_posts, chat_store_calls>>
    /\ UNCHANGED <<extVars, cbVars, memVars, otherVars>>

\* Lines 216-224: up to three store_memory calls, then the return.  The text
\* of the message matters to this model only where it is stored, so the
\* message is taken here: a text or the empty string.
PipelineTenant == [user_id |-> user_info.id, family_id |-> user_info.family_id]

Messages == {"hello", ""}

StoreCall(c) == [source |-> c.source, text |-> c.text]

ChatMemoryWrite(message, o1, o2, o3) ==
    /\ chat_pc = "memory_write"
    /\ LET user_call == PipelineStore(PipelineTenant, message, "user_chat")
           ai_call == PipelineStore(PipelineTenant, final_ai_response, "ai_chat")
           tool_call == PipelineStore(PipelineTenant, "tool_info", "system_tool_interaction")
           user_row == StoredRows(user_call, o1)
           ai_row == IF final_ai_response # "" THEN StoredRows(ai_call, o2) ELSE {}
           tool_row == IF ToolChosen(tool_call_decision) THEN StoredRows(tool_call, o3)
                       ELSE {}
           write_failed == \/ o1 # "stored"
                           \/ final_ai_response # "" /\ o2 # "stored"
                           \/ ToolChosen(tool_call_decision) /\ o3 # "stored"
       IN /\ Cardinality(ai_memory \cup user_row \cup ai_row \cup tool_row) <= MaxRows
          /\ ai_memory' = ai_memory \cup user_row \cup ai_row \cup tool_row
          /\ chat_store_calls' =
                <<StoreCall(user_call)>>
                \o (IF final_ai_response # "" THEN <<StoreCall(ai_call)>> ELSE <<>>)
                \o (IF ToolChosen(tool_call_decision) THEN <<StoreCall(tool_call)>>
                    ELSE <<>>)
          /\ chat_failed' = IF write_failed THEN chat_failed \cup {"memory_write"}
                            ELSE chat_failed
    /\ chat_steps' = Append(chat_steps, "memory_write")
    /\ chat_returned' = final_ai_response
    /\ chat_pc' = "returned"
    /\ UNCHANGED <<mem_pc, mem_args, mem_fetched, relevant_memories, mem_result, mem_handed>>
    /\ UNCHANGED <<aclient_instructor, user_info, context_text, decision_raw,
                   tool_call_decision, tool_result_str, final_tool_info, final_ai_response,
                   chat_posts>>
    /\ UNCHANGED <<extVars, cbVars, otherVars>>

CandidateLists == {<<>>} \cup {<<d>> : d \in AllDocs}

ChatNext ==
    \/ \E ui \in UserInfos : ChatStart(ui)
    \/ \E c \in CandidateLists, raises \in BOOLEAN : ChatMemorySearch(c, raises)
    \/ \E raw \in DecisionOutcomes : ChatToolDecision(raw)
    \/ \E r \in Responses : ChatToolExecution(r)
    \/ \E o \in FinalOutcomes : ChatFinalCompletion(o)
    \/ \E m \in Messages, o1 \in StoreOutcomes, o2 \in StoreOutcomes, o3 \in StoreOutcomes :
          ChatMemoryWrite(m, o1, o2, o3)
    \/ Tick

(***************************************************************************)
(* Part 5: users and families (crud/user_crud.py, crud/family_crud.py).    *)
(***************************************************************************)
\* The names bound at module level in user_crud.py (lines 5-17) and in
\* family_crud.py (lines 5-22).  A function that uses another global name
\* raises NameError when it reaches the use.
user_crud_names ==
    {"logging", "Optional", "List", "UUID", "psycopg", "class_row", "EmailStr",
     "DBUser", "UserRole", "UserCreate", "UserUpdate"}

family_crud_names ==
    {"logging", "secrets", "string", "Optional", "List", "UUID", "psycopg",
     "class_row", "dict_row", "DBFamily", "DBUser", "FamilyCreate", "FamilyUpdate",
     "update_user", "UserUpdate"}

NameError == [exc |-> "NameError", status |-> 0]

\* `raise HTTPException(status_code=code, ...)` in a module with the given
\* global names: the HTTPException asked for, or NameError when the module
\* never imported HTTPException or status.
RaiseHTTPException(names, code) ==
    IF {"HTTPException", "status"} \subseteq names THEN Raised(code) ELSE NameError

CrudUserIds == {"u1", "u2", "u3"}
CrudFamilyIds == {"f1", "f2"}
KeycloakIds == {"kc1", "kc3"}
Usernames == {"ann", "cat"}
Emails == {"ann@x", NoneVal}
JoinCodes == {"c1", "c2"}
FieldUnset == "unset"

\* Rows of table "user" (the columns the three operations read or write) and
\* of table "family".
UserRow(id, kc, un, em, ro, fam) ==
    [id |-> id, keycloak_id |-> kc, username |-> un, email |-> em, role |-> ro,
     family_id |-> fam, parent_id |-> NoneVal]

FamilyRow(id, name, code) == [id |-> id, name |-> name, join_code |-> code]

\* The unique constraints of the two tables: keycloak_id, username and email
\* of "user" (NULL emails do not collide), join_code of "family".
UserUniqueViolation(table, row) ==
    \E r \in table :
        /\ r.id # row.id
        /\ \/ r.keycloak_id = row.keycloak_id
           \/ r.username = row.username
           \/ (row.email # NoneVal /\ r.email = row.email)

FamilyUniqueViolation(table, row) ==
    \E r \in table : r.id # row.id /\ row.join_code # NoneVal /\ r.join_code = row.join_code

\* UserCreate bodies: keycloak_id, username, email, role, family_id.
UserCreates ==
    [keycloak_id : KeycloakIds, username : Usernames, email : Emails,
     role : {"parent", "child"}, family_id : {NoneVal}]

\* UserUpdate bodies: every field is optional; FieldUnset marks a field the body
\* does not carry (model_dump(exclude_unset=True) leaves it out).
UserUpdates ==
    [username : {FieldUnset} \cup Usernames, email : {FieldUnset} \cup Emails,
     role : {FieldUnset, "parent"}, family_id : {FieldUnset, "f2"},
     parent_id : {FieldUnset, "u1"}]

update_data(user_in) == {k \in DOMAIN user_in : user_in[k] # FieldUnset}

\* create_user returns [table, result]: the table after the call and what the
\* caller gets.  Line 74 evaluates isinstance(user_in.role, Enum) inside the
\* try block; an exception there, or a failure of the INSERT, is handled by
\* an except clause that rolls back and raises HTTPException.
create_user(table, user_in, new_id) ==
    LET row == UserRow(new_id, user_in.keycloak_id, user_in.username, user_in.email,
                       user_in.role, user_in.family_id)
    IN  IF "Enum" \notin user_crud_names
        THEN [table |-> table, result |-> RaiseHTTPException(user_crud_names, 500)]
        ELSE IF UserUniqueViolation(table, row)
        THEN [table |-> table, result |-> RaiseHTTPException(user_crud_names, 409)]
        ELSE [table |-> table \cup {row}, result |-> Returned]

\* update_user: an empty update_data returns the user as it is (line 128);
\* otherwise the loop of lines 134-143 evaluates isinstance(value, Enum) for
\* each field, outside any try block; then the UPDATE runs inside one.
update_user(table, user, user_in) ==
    LET keys == update_data(user_in)
        row  == [k \in DOMAIN user |-> IF k \in keys THEN user_in[k] ELSE user[k]]
    IN  IF keys = {}
        THEN [table |-> table, result |-> Returned]
        ELSE IF "Enum" \notin user_crud_names
        THEN [table |-> table, result |-> NameError]
        ELSE IF UserUniqueViolation(table, row)
        THEN [table |-> table, result |-> RaiseHTTPException(user_crud_names, 409)]
        ELSE [table |-> (table \ {user}) \cup {row}, result |-> Returned]

\* create_family_with_owner returns [users, families, result].  The join code
\* is random (line 71) and not checked against the table.  The INSERT and the
\* update of the owner run in one transaction: whatever update_user raises is
\* caught at line 107, which rolls the INSERT back.
create_family_with_owner_NoRollback(utable, ftable, name, owner, join_code, new_id) ==
    LET family == FamilyRow(new_id, name, join_code)
        upd    == update_user(utable, owner,
                              [username |-> FieldUnset, email |-> FieldUnset, family_id |-> new_id])
    IN  IF owner.family_id # NoneVal
        THEN [users |-> utable, families |-> ftable,
              result |-> RaiseHTTPException(family_crud_names, 400)]
        ELSE IF FamilyUniqueViolation(ftable, family)
        THEN [users |-> utable, families |-> ftable,
              result |-> RaiseHTTPException(family_crud_names, 409)]
        ELSE IF upd.result # Returned
        THEN [users |-> utable, families |-> ftable \cup {family},
              result |-> RaiseHTTPException(family_crud_names, 500)]
        ELSE [users |-> upd.table, families |-> ftable \cup {family},
              result |-> Returned]

create_family_with_owner(utable, ftable, name, owner, join_code, new_id) ==
    LET family == FamilyRow(new_id, name, join_code)
        upd    == update_user(utable, owner,
                              [username |-> FieldUnset, email |-> FieldUnset, family_id |-> new_id])
    IN  IF owner.family_id # NoneVal
        THEN [users |-> utable, families |-> ftable,
              result |-> RaiseHTTPException(family_crud_names, 400)]
        ELSE IF FamilyUniqueViolation(ftable, family)
        THEN [users |-> utable, families |-> ftable,
              result |-> RaiseHTTPException(family_crud_names, 409)]
        ELSE IF upd.result # Returned
        THEN [users |-> utable, families |-> ftable,
              result |-> RaiseHTTPException(family_crud_names, 500)]
        ELSE [users |-> upd.table, families |-> ftable \cup {family},
              result |-> Returned]

NoCall == [op |-> "none"]

\* Rows the tables hold before the first call: one user without a family and
\* one member of family f1.
SeedUsers ==
    {UserRow("u1", "kc1", "ann", "ann@x", "parent", NoneVal),
     UserRow("u2", "kc2", "bob", NoneVal, "child", "f1")}

SeedFamilies == {FamilyRow("f1", "home", "c1")}

CrudInit ==
    /\ user_table = SeedUsers
    /\ family_table = SeedFamilies
    /\ crud_call = NoCall

FreeId(ids, used) == CHOOSE i \in ids : i \notin used

CreateUser(user_in) ==
    /\ \E i \in CrudUserIds : i \notin {r.id : r \in user_table}
    /\ LET out == create_user(user_table, user_in,
                              FreeId(CrudUserIds, {r.id : r \in user_table}))
       IN  /\ user_table' = out.table
           /\ crud_call' = [op |-> "create_user", input |-> user_in,
                            users |-> user_table, families |-> family_table,
                            result |-> out.result]
    /\ UNCHANGED family_table
    /\ UNCHANGED notCrudVars

UpdateUser(uid, user_in) ==
    /\ \E r \in user_table : r.id = uid
    /\ LET user == CHOOSE r \in user_table : r.id = uid
           out  == update_user(user_table, user, user_in)
       IN  /\ user_table' = out.table
           /\ crud_call' = [op |-> "update_user", user |-> user, input |-> user_in,
                            users |-> user_table, families |-> family_table,
                            result |-> out.result]
    /\ UNCHANGED family_table
    /\ UNCHANGED notCrudVars

CreateFamilyWithOwner(uid, name, join_code) ==
    /\ \E r \in user_table : r.id = uid
    /\ \E i \in CrudFamilyIds : i \notin {f.id : f \in family_table}
    /\ LET owner == CHOOSE r \in user_table : r.id = uid
           out   == create_family_with_owner(
                        user_table, family_table, name, owner, join_code,
                        FreeId(CrudFamilyIds, {f.id : f \in family_table}))
       IN  /\ user_table' = out.users
           /\ family_table' = out.families
           /\ crud_call' = [op |-> "create_family_with_owner", owner |-> owner,
                            join_code |-> join_code,
                            users |-> user_table, families |-> family_table,
                            result |-> out.result]
    /\ UNCHANGED notCrudVars

(***************************************************************************)
(* Part 6: the connection pool (db/session.py) and the dependencies that   *)
(* use it (auth/dependencies.py).                                           *)
(***************************************************************************)
ReqIds == {"a", "b", "c"}
Tokens == {"none", "invalid", "valid"}

\* What get_db_conn hands to the functions that depend on it: line 87 yields
\* the connection taken at line 85, not the pool.
Yielded == "connection"

\* `pool.connection()` (dependencies.py line 229, screen_time.py line 344) on
\* the object the dependency yielded: a pool gives one of its connections; a
\* connection has no callable of that name and the call raises TypeError.
ConnectionCall_Acquires(obj) == "acquire"

ConnectionCall(obj) == IF obj = "pool" THEN "acquire" ELSE "TypeError"

IdleReq == [pc |-> "idle", token |-> "none", held |-> 0, taken |-> 0, code |-> 0]

PoolInit ==
    /\ pool_free = MaxPool
    /\ req = [r \in ReqIds |-> IdleReq]

\* A request arrives.  oauth2_scheme runs first: without a bearer token the
\* request is answered 401 before get_db_conn starts.
ReqStart(r, token) ==
    /\ req[r].pc = "idle"
    /\ req' = [req EXCEPT ![r] =
                  IF token = "none"
                  THEN [@ EXCEPT !.pc = "done", !.code = 401]
                  ELSE [@ EXCEPT !.pc = "get_db_conn", !.token = token]]
    /\ UNCHANGED pool_free
    /\ UNCHANGED notPoolVars

\* get_db_conn, line 85: `async with _pool.connection() as conn` takes a free
\* connection and yields it.
GetDbConn(r) ==
    /\ req[r].pc = "get_db_conn"
    /\ pool_free > 0
    /\ pool_free' = pool_free - 1
    /\ req' = [req EXCEPT ![r] = [@ EXCEPT !.pc = "get_current_user", !.held = @ + 1,
                                            !.taken = @ + 1]]
    /\ UNCHANGED notPoolVars

\* No connection is free: the pool's wait times out and get_db_conn raises
\* before it has taken anything.
GetDbConnTimeout(r) ==
    /\ req[r].pc = "get_db_conn"
    /\ pool_free = 0
    /\ req' = [req EXCEPT ![r] = [@ EXCEPT !.pc = "done", !.code = 500]]
    /\ UNCHANGED pool_free
    /\ UNCHANGED notPoolVars

\* get_current_user: a token that does not validate gives 401 (lines 191-224);
\* otherwise line 229 calls pool.connection() on what get_db_conn yielded.
GetCurrentUser(r) ==
    /\ req[r].pc = "get_current_user"
    /\ IF req[r].token = "invalid"
       THEN /\ req' = [req EXCEPT ![r] = [@ EXCEPT !.pc = "exit", !.code = 401]]
            /\ UNCHANGED pool_free
       ELSE IF ConnectionCall(Yielded) = "TypeError"
       THEN /\ req' = [req EXCEPT ![r] = [@ EXCEPT !.pc = "exit", !.code = 500]]
            /\ UNCHANGED pool_free
       ELSE /\ pool_free > 0
            /\ pool_free' = pool_free - 1
            /\ req' = [req EXCEPT ![r] = [@ EXCEPT !.pc = "exit", !.held = @ + 1,
                                                    !.taken = @ + 1, !.code = 200]]
    /\ UNCHANGED notPoolVars

\* The request ends: the context manager of get_db_conn (lines 85-92) exits,
\* with or without an exception, and what the request holds goes back.
ExitDependency(r) ==
    /\ req[r].pc = "exit"
    /\ pool_free' = pool_free + req[r].held
    /\ req' = [req EXCEPT ![r] = [@ EXCEPT !.pc = "done", !.held = 0]]
    /\ UNCHANGED notPoolVars

PoolNext ==
    \/ \E r \in ReqIds, token \in Tokens : ReqStart(r, token)
    \/ \E r \in ReqIds : GetDbConn(r)
    \/ \E r \in ReqIds : GetDbConnTimeout(r)
    \/ \E r \in ReqIds : GetCurrentUser(r)
    \/ \E r \in ReqIds : ExitDependency(r)

(***************************************************************************)
(* Part 7: the read endpoints GET /requests (api/v1/screen_time.py,        *)
(* crud/screen_time_crud.py) and GET /users/{user_id} (api/v1/users.py).   *)
(***************************************************************************)
\* The users the read endpoints find: those of part 1, a child of family f2
\* and a parent without a family.
ReadUserIds == UserIds \cup {"c2", "n1"}
UnknownUser == "u0"

ReadUsers ==
    [u \in ReadUserIds |->
        IF u \in UserIds THEN InitialUsers[u]
        ELSE CASE u = "c2" -> [role |-> "child",  family_id |-> "f2",    is_active |-> TRUE]
               [] u = "n1" -> [role |-> "parent", family_id |-> NoneVal, is_active |-> TRUE]]

\* Stored extension requests in the order of their created_at.
ListedIds == <<"r1", "r2", "r3", "r4">>

CreatedAt(rid) == CHOOSE i \in 1..Len(ListedIds) : ListedIds[i] = rid

Requesters == {"k1", "c2"}

\* A stored request of a user: as created, or as approved by a parent or
\* admin of the user's family.
StoredRequest(u, st) ==
    LET created == NewRequest([user_id |-> u, rule_id |-> "rule1",
                               requested_minutes |-> 1, status |-> PENDING])
    IN  IF st = PENDING THEN created
        ELSE UpdatedRow(created, IF ReadUsers[u].family_id = "f1" THEN "p1" ELSE "q1",
                        [status |-> APPROVED, approved_minutes |-> 1,
                         response_note |-> NoneVal])

RequestTables ==
    UNION {[{ListedIds[i] : i \in 1..n} ->
               {StoredRequest(u, st) : u \in Requesters, st \in {PENDING, APPROVED}}]
           : n \in 0..MaxListed}

RECURSIVE NewestFirst(_)
NewestFirst(ids) ==
    IF ids = {} THEN <<>>
    ELSE LET newest == CHOOSE r \in ids : \A q \in ids : CreatedAt(q) <= CreatedAt(r)
         IN  <<newest>> \o NewestFirst(ids \ {newest})

Limit(seq, n) == SubSeq(seq, 1, IF Len(seq) < n THEN Len(seq) ELSE n)

StatusMatches(rid, st) == st = NoneVal \/ requests[rid].status = st

\* The two family queries (lines 364-379) join `user u` without quotes.  Where
\* that name is the table "user" the join gives the requests of the family's
\* members; where it is the key word USER the statement fails and line 407
\* returns [].  join_ok says which.
FamilyQuery_NoFamilyFilter(family_id, target, st) ==
    {rid \in DOMAIN requests :
        /\ requests[rid].user_id \in DOMAIN users
        /\ target # NoneVal => requests[rid].user_id = target
        /\ StatusMatches(rid, st)}

FamilyQuery(family_id, target, st) ==
    {rid \in DOMAIN requests :
        /\ requests[rid].user_id \in DOMAIN users
        /\ users[requests[rid].user_id].family_id = family_id
        /\ target # NoneVal => requests[rid].user_id = target
        /\ StatusMatches(rid, st)}

\* The query of line 382: the caller's own requests, whatever target is.
OwnQuery(caller, target, st) ==
    {rid \in DOMAIN requests :
        /\ requests[rid].user_id = caller
        /\ StatusMatches(rid, st)}

get_extension_requests_multi(caller, target, st, limit, join_ok) ==
    LET is_parent_or_admin == users[caller].role \in {"parent", "admin", "caregiver"}
        family_id == users[caller].family_id
    IN  IF family_id = NoneVal THEN <<>>
        ELSE IF is_parent_or_admin
        THEN IF join_ok
             THEN Limit(NewestFirst(FamilyQuery(family_id, target, st)), limit)
             ELSE <<>>
        ELSE Limit(NewestFirst(OwnQuery(caller, target, st)), limit)

\* read_extension_requests_endpoint.  In this function `status` is the query
\* parameter (line 383), so `status.HTTP_400_BAD_REQUEST` at line 394 raises
\* AttributeError and a caller without a family gets 500.
read_extension_requests_endpoint(caller, target, st, limit, join_ok) ==
    IF get_current_active_user(caller) # Passed
    THEN [code |-> get_current_active_user(caller), body |-> <<>>]
    ELSE IF users[caller].family_id = NoneVal
    THEN [code |-> 500, body |-> <<>>]
    ELSE [code |-> 200,
          body |-> get_extension_requests_multi(caller, target, st, limit, join_ok)]

\* read_user_by_id: the answer is the status code and the id of the user
\* returned (NoneVal when an exception is raised).
FamilyMember_AnyFamily(caller, user_id) == user_id \in DOMAIN users

FamilyMember(caller, user_id) ==
    /\ user_id \in DOMAIN users
    /\ users[user_id].family_id = users[caller].family_id

read_user_by_id(caller, user_id) ==
    IF get_current_active_user(caller) # Passed
    THEN [code |-> get_current_active_user(caller), user |-> NoneVal]
    ELSE IF caller = user_id
    THEN [code |-> 200, user |-> user_id]
    ELSE IF /\ users[caller].family_id # NoneVal
            /\ users[caller].role \in {"parent", "admin", "caregiver"}
    THEN IF FamilyMember(caller, user_id)
         THEN [code |-> 200, user |-> user_id]
         ELSE [code |-> 404, user |-> NoneVal]
    ELSE [code |-> 403, user |-> NoneVal]

NoRead == [op |-> "none"]

ListCallers == {"p1", "q1", "k1", "n1", "z1"}
ListTargets == {NoneVal, "k1", "c2"}
ListStatuses == {NoneVal, PENDING}
ListLimits == {1, 2}

ListRequests(caller, target, st, limit, join_ok) ==
    /\ read_call' = [op |-> "list", caller |-> caller, target |-> target, status |-> st,
                     limit |-> limit,
                     answer |-> read_extension_requests_endpoint(caller, target, st,
                                                                 limit, join_ok)]
    /\ UNCHANGED notReadVars

ReadUserById(caller, user_id) ==
    /\ read_call' = [op |-> "read_user", caller |-> caller, user_id |-> user_id,
                     answer |-> read_user_by_id(caller, user_id)]
    /\ UNCHANGED notReadVars

ReadNext ==
    \/ \E caller \in ListCallers, target \in ListTargets, st \in ListStatuses,
          limit \in ListLimits, join_ok \in BOOLEAN :
          ListRequests(caller, target, st, limit, join_ok)
    \/ \E caller \in ReadUserIds, user_id \in ReadUserIds \cup {UnknownUser} :
          ReadUserById(caller, user_id)

ReadInit == read_call = NoRead

(***************************************************************************)
(* Part 8: the tool registry (tools/registry.py).                          *)
(***************************************************************************)
\* An element of the "tools" array: a JSON object, or a value of another
\* shape.  Of an object the model keeps the name ("absent" when there is no
\* such key), whether display_name and description are there and strings,
\* the server_url, and how the actions field looks.
AbsentKey == "absent"
NotAString == "not_str"

ToolObject(name, display_name, description, server_url, actions) ==
    [shape |-> "dict", name |-> name, display_name |-> display_name,
     description |-> description, server_url |-> server_url, actions |-> actions]

NotAnObject ==
    [shape |-> "str", name |-> AbsentKey, display_name |-> AbsentKey,
     description |-> AbsentKey, server_url |-> AbsentKey, actions |-> AbsentKey]

\* The entries a configuration is written with: four valid tools (two names,
\* two servers), a tool with an empty name, one without a name, one without
\* a server_url, one whose actions are not well-formed, and a string where
\* an object is expected.
ToolEntries ==
    {ToolObject(n, "str", "str", u, "valid_list") : n \in {"a", "b"}, u \in {"s1", "s2"}}
    \cup {ToolObject("", "str", "str", "s1", "valid_list"),
          ToolObject(AbsentKey, "str", "str", "s1", "valid_list"),
          ToolObject("a", "str", "str", AbsentKey, "valid_list"),
          ToolObject("b", "str", NotAString, "s1", "invalid_list"),
          NotAnObject}

\* validate_tool_config, lines 95-151: a dict with the five required fields,
\* display_name, description and server_url strings, actions a list whose
\* elements pass the checks of lines 128-149.
validate_tool_config(tool_config) ==
    /\ tool_config.shape = "dict"
    /\ tool_config.name # AbsentKey
    /\ tool_config.display_name = "str"
    /\ tool_config.description = "str"
    /\ tool_config.server_url \notin {AbsentKey, NotAString}
    /\ tool_config.actions = "valid_list"

\* Lines 60-77: what is kept of a validated tool.
tool_data(tool_config) ==
    [server_url |-> tool_config.server_url, actions |-> tool_config.actions]

NoTool == [server_url |-> "", actions |-> AbsentKey]

EmptyRegistry == [n \in {} |-> NoTool]

\* What the file holds: nothing (no such file), text that is not JSON, JSON
\* without a "tools" array, or a "tools" array of at most MaxTools elements.
ToolLists == UNION {[1..n -> ToolEntries] : n \in 0..MaxTools}

NoToolList == [n \in {} |-> NotAnObject]

ConfigFiles ==
    {[kind |-> k, tools |-> NoToolList] : k \in {"no_file", "not_json", "no_tools_array"}}
    \cup {[kind |-> "tools", tools |-> t] : t \in ToolLists}

\* Lines 52-82, the loop over the array.  tool_config.get("name") (line 54)
\* raises AttributeError on an element that is not a dict; an element whose
\* name is missing or empty is skipped (lines 55-57); a validated tool is
\* put under its name, replacing an earlier one of that name.
RECURSIVE LoadLoop(_, _, _)
LoadLoop(tools, i, validated_tools) ==
    IF i > Len(tools) THEN [raised |-> FALSE, validated_tools |-> validated_tools]
    ELSE IF tools[i].shape # "dict" THEN [raised |-> TRUE, validated_tools |-> validated_tools]
    ELSE IF tools[i].name \in {AbsentKey, ""} THEN LoadLoop(tools, i + 1, validated_tools)
    ELSE IF validate_tool_config(tools[i])
      THEN LoadLoop(tools, i + 1,
                    [n \in DOMAIN validated_tools \cup {tools[i].name} |->
                        IF n = tools[i].name THEN tool_data(tools[i])
                        ELSE validated_tools[n]])
    ELSE LoadLoop(tools, i + 1, validated_tools)

\* load_tools_registry, lines 25-92: the value _TOOLS_REGISTRY is left with.
\* Every exception inside the try block empties the registry (lines 87-92).
LoadedRegistry(config) ==
    IF config.kind # "tools" THEN EmptyRegistry
    ELSE LET loop == LoadLoop(config.tools, 1, EmptyRegistry)
         IN IF loop.raised THEN EmptyRegistry ELSE loop.validated_tools

\* tools_config.json is written (or removed).
WriteConfig(config) ==
    /\ config # config_file
    /\ config_file' = config
    /\ registry_loaded' = FALSE
    /\ UNCHANGED tools_registry
    /\ UNCHANGED notRegVars

load_tools_registry ==
    /\ tools_registry' = LoadedRegistry(config_file)
    /\ registry_loaded' = TRUE
    /\ UNCHANGED config_file
    /\ UNCHANGED notRegVars

RegistryNext ==
    \/ \E config \in ConfigFiles : WriteConfig(config)
    \/ load_tools_registry

\* Line 16, before any load; no configuration file yet.
RegInit ==
    /\ config_file = [kind |-> "no_file", tools |-> NoToolList]
    /\ tools_registry = EmptyRegistry
    /\ registry_loaded = FALSE

\* The structured-output client is set once, when the module is imported
\* (lines 74-82): patched, or None when patching failed.
InitChat ==
    /\ ExtInit
    /\ CbInit
    /\ MemInit
    /\ ChatInitRun
    /\ aclient_instructor \in {"patched", "None"}
    /\ CrudInit
    /\ PoolInit
    /\ ReadInit
    /\ RegInit

Init ==
    ExtInit /\ CbInit /\ MemInit /\ ChatInit /\ CrudInit /\ PoolInit /\ ReadInit /\ RegInit

Next == ExtNext

Spec == Init /\ [][Next]_vars

BreakerNext ==
    \/ \E kw \in ToolKwargs : ExecuteToolCall(kw)
    \/ \E i \in 1..MaxInFlight, r \in Responses : ExecuteToolComplete(i, r)
    \/ Tick

SpecBreaker == Init /\ [][BreakerNext]_vars

SpecPool == Init /\ [][PoolNext]_vars

\* The tables the read endpoints find: the users above and any requests of
\* theirs, created or approved.
InitRead ==
    /\ users = ReadUsers
    /\ rules = InitialRules
    /\ requests \in RequestTables
    /\ resp = [u \in UserIds |-> IdleResp]
    /\ CbInit
    /\ MemInit
    /\ ChatInit
    /\ CrudInit
    /\ PoolInit
    /\ ReadInit
    /\ RegInit

SpecRead == InitRead /\ [][ReadNext]_vars

\* PUT /users/me (api/v1/users.py lines 44-59): the body is a UserUpdate, the
\* record is the caller's own, and update_user is called on what
\* db.connection() gives; db is what get_db_conn yielded.
update_user_me_WritesBody(table, current_user, user_in) ==
    [table |-> (table \ {current_user})
                  \cup {[k \in DOMAIN current_user |->
                            IF k \in update_data(user_in) THEN user_in[k]
                            ELSE current_user[k]]},
     result |-> Returned]

update_user_me(table, current_user, user_in) ==
    IF ConnectionCall(Yielded) # "acquire"
      THEN [table |-> table, result |-> TypeError]
      ELSE update_user(table, current_user, user_in)

UpdateUserMe(uid, user_in) ==
    /\ \E r \in user_table : r.id = uid
    /\ LET current_user == CHOOSE r \in user_table : r.id = uid
           out == update_user_me(user_table, current_user, user_in)
       IN  /\ user_table' = out.table
           /\ crud_call' = [op |-> "update_user_me", user |-> current_user,
                            input |-> user_in,
                            users |-> user_table, families |-> family_table,
                            result |-> out.result]
    /\ UNCHANGED family_table
    /\ UNCHANGED notCrudVars

CrudNext ==
    \/ \E user_in \in UserCreates : CreateUser(user_in)
    \/ \E uid \in CrudUserIds, user_in \in UserUpdates : UpdateUser(uid, user_in)
    \/ \E uid \in CrudUserIds, code \in JoinCodes :
          CreateFamilyWithOwner(uid, "home", code)
    \/ \E uid \in CrudUserIds, user_in \in UserUpdates : UpdateUserMe(uid, user_in)

\* The tables before the first call: any part of the seed rows.
InitCrud ==
    /\ ExtInit
    /\ CbInit
    /\ MemInit
    /\ ChatInit
    /\ PoolInit
    /\ ReadInit
    /\ RegInit
    /\ user_table \in SUBSET SeedUsers
    /\ family_table = SeedFamilies
    /\ crud_call = NoCall

SpecCrud == InitCrud /\ [][CrudNext]_vars

SpecRegistry == Init /\ [][RegistryNext]_vars

(***************************************************************************)
(* Claims about extension requests (specification Spec).                   *)
(***************************************************************************)
Actioned(rid) == rid \in DOMAIN requests /\ requests[rid].status \in {APPROVED, DENIED}

\* C1: a request's status changes at most once, from PENDING to APPROVED or
\* DENIED; once it is APPROVED or DENIED no step changes its status,
\* responded_by_id, approved_minutes or response_note.
C1_StatusChangesAtMostOnce ==
    [][\A rid \in DOMAIN requests :
        /\ requests'[rid].status # requests[rid].status
              => /\ requests[rid].status = PENDING
                 /\ requests'[rid].status \in {APPROVED, DENIED}
        /\ Actioned(rid)
              => /\ requests'[rid].status = requests[rid].status
                 /\ requests'[rid].responded_by_id = requests[rid].responded_by_id
                 /\ requests'[rid].approved_minutes = requests[rid].approved_minutes
                 /\ requests'[rid].response_note = requests[rid].response_note]_vars

\* C1 witness: a respond call has run its UPDATE on a request that another
\* responder had already approved or denied.
C1_Witness ==
    \E u \in UserIds :
        /\ resp[u].pc = "done"
        /\ resp[u].code = 500
        /\ Actioned(resp[u].rid)
        /\ requests[resp[u].rid].responded_by_id # u

\* C2: when two responders both pass the 'still pending' pre-check on the same
\* request before either writes, exactly one of the two conditional UPDATEs
\* matches, and the stored responder is the one whose UPDATE matched.
RacedPair(u, v) ==
    /\ u # v
    /\ resp[u].pc = "done" /\ resp[v].pc = "done"
    /\ resp[u].rid = resp[v].rid
    /\ resp[u].raced /\ resp[v].raced
    /\ resp[u].code \in {200, 500} /\ resp[v].code \in {200, 500}

SpecMemory == Init /\ [][MemoryNext]_vars

SpecChat == InitChat /\ [][ChatNext]_vars

(***************************************************************************)
(* Claims about the circuit breaker (specification SpecBreaker).           *)
(***************************************************************************)
TimeoutElapsed == now - cb_opened >= RECOVERY_TIMEOUT

CallStep == lastStep' = "call"

CallEnds == lastStep' \in {"call", "complete"} /\ lastResult'.exc # "pending"

Failed(result) == result.exc \in {"HTTPException", "TypeError"}

\* C3: the circuit is open exactly when the last FAILURE_THRESHOLD (5) or more
\* calls that ran have all failed, a call that returned resetting the run;
\* and while it is open and RECOVERY_TIMEOUT (30 s) has not elapsed since it
\* opened, a call of execute_tool is refused with CircuitBreakerError and
\* puts no HTTP request on the wire.
C3_OpensAfterFiveFailuresAndRejects ==
    [][/\ (cb_state' = "open") <=> (streak' >= FAILURE_THRESHOLD)
       /\ (cb_state = "open" /\ ~TimeoutElapsed /\ CallStep)
             => (lastResult' = CircuitBreakerError /\ inflight' = inflight)]_vars

\* C3 witness: five failures in a row have opened the circuit and a call made
\* before the timeout elapsed has just been refused.
C3_Witness ==
    /\ cb_state = "open"
    /\ streak = FAILURE_THRESHOLD
    /\ ~TimeoutElapsed
    /\ lastStep = "call"
    /\ lastResult = CircuitBreakerError

SameId(field, id) == field.t # "none" /\ field.v = id.v

OfCaller(m) ==
    /\ SameId(m.metadata.user_id, mem_args.user_id)
    /\ SameId(m.metadata.family_id, mem_args.family_id)

Elems(ms) == {ms[i] : i \in DOMAIN ms}

\* C5: every memory that search_relevant_memories collects and returns carries
\* the caller's user_id and the caller's family_id in its metadata; a
\* candidate of another user or family, or lacking either field, is never
\* among them, whatever candidates the vector store hands back.
C5_OnlyCallersMemoriesReturned ==
    /\ \A m \in Elems(relevant_memories) : OfCaller(m)
    /\ \A m \in Elems(mem_result) : OfCaller(m)

\* C5 witness: a search without a score threshold has returned a memory and
\* has dropped at least one of the candidates it was handed.
C5_Witness ==
    /\ mem_pc = "done"
    /\ ~mem_args.has_threshold
    /\ Len(mem_result) >= 1
    /\ mem_fetched > Len(mem_result)

\* C6: when a search without a score threshold has returned, every row that
\* the chat pipeline stored for the caller's user and family and that came
\* back among the candidates is in the result, unless the result is full
\* (k memories).
C6_StoredTurnRetrievable ==
    (mem_pc = "done" /\ ~mem_args.has_threshold) =>
        \A r \in mem_handed :
            \/ \E m \in Elems(mem_result) : m.row = r
            \/ Len(mem_result) >= mem_args.k

(***************************************************************************)
(* Claims about the chat pipeline (specification SpecChat).                *)
(***************************************************************************)
StepOrder ==
    <<"memory_search", "tool_decision", "tool_execution", "final_completion",
      "memory_write">>

StepRank(step) == CHOOSE r \in DOMAIN StepOrder : StepOrder[r] = step

StepsTaken == {chat_steps[i] : i \in DOMAIN chat_steps}

\* C7: the steps a run of process_chat_message_hybrid has taken are in the
\* order memory search, tool decision, tool execution, final completion,
\* memory writes, each at most once; no step is taken without the ones
\* before it, and tool execution is taken exactly when the decision names a
\* tool.
C7_StepsInOrder ==
    /\ \A i, j \in DOMAIN chat_steps :
          i < j => StepRank(chat_steps[i]) < StepRank(chat_steps[j])
    /\ "tool_decision" \in StepsTaken => "memory_search" \in StepsTaken
    /\ "tool_execution" \in StepsTaken =>
          "tool_decision" \in StepsTaken /\ tool_call_decision \in ToolCalls
    /\ "final_completion" \in StepsTaken =>
          /\ "tool_decision" \in StepsTaken
          /\ tool_call_decision \in ToolCalls => "tool_execution" \in StepsTaken
    /\ "memory_write" \in StepsTaken => "final_completion" \in StepsTaken

\* C7 witness: a run that has returned after taking all five steps.
C7_Witness ==
    /\ chat_pc = "returned"
    /\ chat_steps = StepOrder

InfoOrClientMissing ==
    \/ ~Truthy(user_info.id)
    \/ ~Truthy(user_info.family_id)
    \/ aclient_instructor = "None"

\* C8 as stated: whichever step has failed, and when user id, family id or
\* the structured-output client is missing, the run returns an apology.
C8_ApologyWhicheverStepFails ==
    (chat_pc = "returned" /\ (chat_failed # {} \/ InfoOrClientMissing)) =>
        chat_returned \in Apologies

\* C8 amended: a run always ends by returning a string; that string is an
\* apology exactly when user id, family id or the structured-output client
\* is missing or the final completion failed; after a failure of the memory
\* search, the tool decision, the tool execution (an open circuit included)
\* or a memory write it is the text of the final completion.
C8_ReturnsStringApologyOnlyOnFinalFailure ==
    chat_pc = "returned" =>
        /\ chat_returned # NotReturned
        /\ chat_returned \in Apologies <=>
              (InfoOrClientMissing \/ "final_completion" \in chat_failed)
        /\ chat_returned \notin Apologies => chat_returned = final_ai_response

\* C8 witness: the memory search, the tool execution (refused by the open
\* circuit) and a memory write have failed and the run has returned the
\* text of the final completion.
C8_Witness ==
    /\ chat_pc = "returned"
    /\ {"memory_search", "tool_execution", "memory_write"} \subseteq chat_failed
    /\ tool_result_str.exc = "CircuitBreakerError"
    /\ chat_returned = "reply"

\* C9: a tool decision that raised or was None is used as no_tool_needed and
\* execute_tool is not called; a failed execute_tool call leaves an error
\* text as the tool result, and that text is what the final completion is
\* given; a run in which either step failed does not return before the
\* final completion has been called.
C9_ToolFailuresReachFinalCompletion ==
    /\ ("tool_decision" \in StepsTaken /\ decision_raw \in {"None", "exception"}) =>
          /\ tool_call_decision = NoToolCall
          /\ "tool_execution" \notin StepsTaken
          /\ chat_posts = 0
    /\ "tool_execution" \in chat_failed =>
          /\ tool_result_str.text = "Error: Could not execute tool"
          /\ "final_completion" \in StepsTaken => final_tool_info = tool_result_str
    /\ (chat_pc = "returned" /\ chat_failed \cap {"tool_decision", "tool_execution"} # {})
          => "final_completion" \in StepsTaken

\* C9 witness: the final completion has been called with the error text of a
\* call that the open circuit refused.
C9_Witness ==
    /\ "final_completion" \in StepsTaken
    /\ "tool_execution" \in chat_failed
    /\ final_tool_info.text = "Error: Could not execute tool"
    /\ final_tool_info.exc = "CircuitBreakerError"

\* C10: when the decision names a tool and the circuit is closed, the
\* pipeline's call of execute_tool posts exactly one HTTP request, and the
\* tool result handed on is the tool server's answer (its JSON, or the error
\* the answer caused).
C10_ToolCallPostsOnce ==
    [][(chat_pc = "tool_execution" /\ chat_pc' = "final_completion"
            /\ cb_state = "closed") =>
          /\ chat_posts' = 1
          /\ tool_result_str'.exc \in {"none", "HTTPException"}]_vars

(***************************************************************************)
(* Claims about the errors of execute_tool (specification SpecBreaker).    *)
(***************************************************************************)
Completed == lastStep = "complete"

\* C11: when the tool server has answered with a status of 400 or above, the
\* call of execute_tool raises an HTTPException with that same status code.
C11_ErrorStatusCarried ==
    (Completed /\ lastResponse.kind = "response" /\ lastResponse.status_code >= 400)
        => lastResult = Raised(lastResponse.status_code)

\* C13: a request that timed out makes execute_tool raise 504; a request
\* that failed with a network error, or an answer (status below 400) whose
\* body is not valid JSON, makes it raise 502.
C13_TimeoutNetworkAndJsonErrors ==
    Completed =>
        /\ lastResponse.kind = "timeout" => lastResult = Raised(504)
        /\ lastResponse.kind = "request_error" => lastResult = Raised(502)
        /\ (lastResponse.kind = "response" /\ lastResponse.status_code < 400
               /\ lastResponse.body # "json") => lastResult = Raised(502)

MayRespond(u, rid) ==
    /\ users[u].is_active
    /\ users[u].role \in {"parent", "caregiver", "admin"}
    /\ users[u].family_id = users[requests[rid].user_id].family_id

SharesUserKey(a, b) ==
    \/ a.keycloak_id = b.keycloak_id
    \/ a.username = b.username
    \/ (a.email # NoneVal /\ a.email = b.email)

\* The last call asked for a row that collides with a stored one.
WouldBreakUniqueness ==
    \/ /\ crud_call.op = "create_user"
       /\ \E r \in crud_call.users : SharesUserKey(r, crud_call.input)
    \/ /\ crud_call.op = "update_user"
       /\ \E r \in crud_call.users \ {crud_call.user} :
             \/ crud_call.input.username = r.username
             \/ (crud_call.input.email = r.email /\ r.email # NoneVal)
    \/ /\ crud_call.op = "create_family_with_owner"
       /\ crud_call.owner.family_id = NoneVal
       /\ \E f \in crud_call.families : f.join_code = crud_call.join_code

\* C15: after any sequence of create_user, update_user and
\* create_family_with_owner calls no two users share a username, an email or
\* a Keycloak id and no two families share a join code; a call that would
\* break this is answered with 409 Conflict and leaves the stored users and
\* families unchanged.
C15_UniqueAndConflictAnswered409 ==
    /\ \A a, b \in user_table : a # b => ~SharesUserKey(a, b)
    /\ \A f, g \in family_table : f # g => f.join_code # g.join_code
    /\ WouldBreakUniqueness =>
          /\ crud_call.result = Raised(409)
          /\ user_table = crud_call.users
          /\ family_table = crud_call.families

(***************************************************************************)
(* Claims about the connection pool (specification SpecPool).              *)
(***************************************************************************)
RECURSIVE HeldBy(_)
HeldBy(S) ==
    IF S = {} THEN 0
    ELSE LET r == CHOOSE x \in S : TRUE IN req[r].held + HeldBy(S \ {r})

\* C16: while a request is handled it holds at most one connection of the
\* shared pool at a time, and every connection it took is back in the pool
\* when the request ends, whether it succeeded or failed; so no request that
\* holds a connection ever waits for a second one.
C16_OneConnectionPerRequest ==
    /\ \A r \in ReqIds : req[r].held <= 1
    /\ \A r \in ReqIds : req[r].pc \in {"idle", "done"} => req[r].held = 0
    /\ pool_free + HeldBy(ReqIds) = MaxPool
    /\ \A r \in ReqIds :
          req[r].held > 0 => ENABLED (GetCurrentUser(r) \/ ExitDependency(r))

\* C16 witness: one request has ended with an error after taking a
\* connection, another was refused for its token after taking one, both
\* connections are back, and a third request holds a connection now.
C16_Witness ==
    \E r1, r2, r3 \in ReqIds :
        /\ req[r1].pc = "done" /\ req[r1].taken = 1 /\ req[r1].code = 500
        /\ req[r2].pc = "done" /\ req[r2].taken = 1 /\ req[r2].code = 401
        /\ req[r3].pc = "get_current_user" /\ req[r3].held = 1
        /\ pool_free = MaxPool - 1

(***************************************************************************)
(* Claims about the fields of extension requests (specification Spec).     *)
(***************************************************************************)
ResponseFieldsUnset(row) ==
    /\ row.responded_by_id = NoneVal
    /\ row.responded_at = NoneVal
    /\ row.approved_minutes = NoMinutes
    /\ row.response_note = NoneVal

\* C19: every extension request is created with status PENDING and with no
\* response fields set, whatever status value the request body carries.
C19_CreatedPendingAndUnanswered ==
    [][\A rid \in RequestIds :
          (rid \notin DOMAIN requests /\ rid \in DOMAIN requests') =>
              /\ requests'[rid].status = PENDING
              /\ ResponseFieldsUnset(requests'[rid])
              /\ \E u \in UserIds, b \in CreateBodies :
                    /\ b.status = APPROVED
                    /\ CreateCheck(u, b) = Passed
                    /\ requests'[rid].user_id = b.user_id
                    /\ requests'[rid].rule_id = b.rule_id
                    /\ requests'[rid].requested_minutes = b.requested_minutes]_vars

\* C19 witness: a request has been created and nobody has answered it.
C19_Witness ==
    /\ "r1" \in DOMAIN requests
    /\ requests["r1"].status = PENDING
    /\ ResponseFieldsUnset(requests["r1"])

ListedRows ==
    {read_call.answer.body[i] : i \in 1..Len(read_call.answer.body)}

FamilyOf(u) == users[u].family_id

\* C17: listing extension requests returns to a child only requests whose
\* user_id is the child's own, whatever target user id the child passes; it
\* returns to a parent, caregiver or admin only requests made by users of the
\* caller's own family, so a target user of another family yields an empty
\* list; with a status filter every returned request has that status.
C17_ListingStaysInFamily ==
    read_call.op = "list" =>
        LET c == read_call.caller
        IN  /\ users[c].role = "child" =>
                  \A rid \in ListedRows : requests[rid].user_id = c
            /\ users[c].role \in {"parent", "caregiver", "admin"} =>
                  /\ \A rid \in ListedRows : FamilyOf(requests[rid].user_id) = FamilyOf(c)
                  /\ (read_call.target # NoneVal /\ FamilyOf(read_call.target) # FamilyOf(c))
                        => ListedRows = {}
            /\ read_call.status # NoneVal =>
                  \A rid \in ListedRows : requests[rid].status = read_call.status

\* C17 witness: a parent listed the requests of the family without a target
\* and got one, while a request of a child of another family is stored too.
C17_Witness ==
    /\ read_call.op = "list"
    /\ read_call.caller = "p1"
    /\ read_call.target = NoneVal
    /\ ListedRows # {}
    /\ \E rid \in DOMAIN requests : requests[rid].user_id = "c2"

LimitOf(rule_id) ==
    IF rule_id \in DOMAIN rules THEN rules[rule_id].extension_limit_minutes
    ELSE NoMinutes

RuleApplies(rule_id, u) == rule_id \in DOMAIN rules /\ rules[rule_id].user_id = u

PostOfRegistry(post) ==
    \E t \in DOMAIN ToolsRegistry :
        \E a \in DOMAIN ToolsRegistry[t].actions :
            LET url == ToolsRegistry[t].server_url
                act == ToolsRegistry[t].actions[a]
            IN  /\ url # <<>>
                /\ post.url \in {url \o <<a>>, url \o <<"execute", a>>}
                /\ act.required_params \subseteq post.params
                /\ post.params \subseteq act.required_params \cup act.optional_params

\* C23: every HTTP request that execute_tool sends is for a tool and action
\* present in the registry with a server_url, carries every required
\* parameter of that action and no argument outside its required and
\* optional parameters; a call that ends with the 404, 500 or 400 of the
\* checks before the request sends nothing.
C23_OnlyRegisteredRequests ==
    /\ [](\A i \in 1..Len(inflight) : PostOfRegistry(inflight[i]))
    /\ [][(lastStep' = "call" /\ lastResult' \in {Raised(404), Raised(500), Raised(400)})
             => inflight' = inflight]_vars

\* C24: the breaker's failure count and state are shared by all tools, and
\* every exception raised by execute_tool counts as a failure, the 404, 500
\* and 400 raised before any HTTP request included: each failed call adds one
\* to the count, five failures in a row of any mix open the circuit, also
\* when no request was sent, and while the circuit is open a call for any
\* tool is refused without a request.
C24_EveryFailureCountsForAllTools ==
    /\ [](streak >= FAILURE_THRESHOLD => cb_state = "open")
    /\ [][(CallEnds /\ Failed(lastResult')) =>
             /\ cb_failure_count' = cb_failure_count + 1
             /\ streak' = streak + 1]_vars
    /\ [][\A kw \in ToolKwargs :
             (opened /\ ExecuteToolCall(kw)) =>
                 (lastResult' = CircuitBreakerError /\ inflight' = inflight)]_vars

\* C24 witness: five calls in a row failed without any of them sending a
\* request, the circuit is open, and the call made next has been refused.
C24_Witness ==
    /\ cb_state = "open"
    /\ streak = FAILURE_THRESHOLD
    /\ ~streak_contacted
    /\ inflight = <<>>
    /\ lastStep = "call"
    /\ lastResult = CircuitBreakerError

(***************************************************************************)
(* Claims about the pipeline's memory writes (specification SpecChat).     *)
(***************************************************************************)
LastOf(steps) == IF steps = <<>> THEN "none" ELSE steps[Len(steps)]

SourcesOf(calls) == [i \in DOMAIN calls |-> calls[i].source]

\* The store_memory calls of a run whose final completion succeeded.
ExpectedSources ==
    <<"user_chat">>
    \o (IF final_ai_response # "" THEN <<"ai_chat">> ELSE <<>>)
    \o (IF tool_call_decision \notin {"None", NoToolCall}
          THEN <<"system_tool_interaction">> ELSE <<>>)

RowsOfCalls(calls) ==
    {row \in ai_memory' :
        \E i \in DOMAIN calls :
            /\ row.source = calls[i].source
            /\ row.text = calls[i].text
            /\ row.text # ""
            /\ row.user_id = user_info.id
            /\ row.family_id = user_info.family_id}

\* C25: the chat pipeline writes memory only after the final completion has
\* succeeded, and a run whose final completion failed stores nothing; after
\* a success store_memory is called for the user message first, then for the
\* AI response if it is not empty, then for the tool interaction exactly when
\* a tool was chosen; no row with an empty text is ever stored; whichever of
\* the writes fail, the later calls are still made and the run returns the
\* final response.
C25_MemoryWrittenAfterFinalSuccess ==
    /\ [](chat_pc = "returned" =>
             IF LastOf(chat_steps) = "memory_write"
               THEN /\ SourcesOf(chat_store_calls) = ExpectedSources
                    /\ final_ai_response # "" => chat_store_calls[2].text = final_ai_response
                    /\ chat_returned = final_ai_response
                    /\ "final_completion" \notin chat_failed
               ELSE chat_store_calls = <<>>)
    /\ [](\A row \in ai_memory : row.text # "")
    /\ [][ai_memory' # ai_memory =>
             /\ LastOf(chat_steps) = "final_completion"
             /\ "final_completion" \notin chat_failed
             /\ LastOf(chat_steps') = "memory_write"
             /\ ai_memory' \ ai_memory \subseteq RowsOfCalls(chat_store_calls')]_vars
    /\ [][("final_completion" \notin chat_failed /\ "final_completion" \in chat_failed') =>
             /\ ai_memory' = ai_memory
             /\ chat_store_calls' = <<>>
             /\ chat_pc' = "returned"]_vars

\* C25 witness: a run with a tool has returned the model's reply; the write
\* of its user message failed, and the AI response and the tool interaction
\* were stored after it all the same.
C25_Witness ==
    /\ chat_pc = "returned"
    /\ chat_returned = "reply"
    /\ "memory_write" \in chat_failed
    /\ Len(chat_store_calls) = 3
    /\ chat_store_calls[1].text = "hello"
    /\ \A row \in ai_memory : row.source # "user_chat"
    /\ \E row \in ai_memory : row.source = "ai_chat"
    /\ \E row \in ai_memory : row.source = "system_tool_interaction"

(***************************************************************************)
(* Claims about the tool registry (specification SpecRegistry).            *)
(***************************************************************************)
ValidIndexes(tools) == {i \in DOMAIN tools : validate_tool_config(tools[i])}

\* C26: after load_tools_registry returns, the registry holds exactly the
\* entries of the configuration's tools array that pass validate_tool_config,
\* keyed by name, and nothing from an earlier load; an invalid entry of any
\* shape is skipped; a missing file, undecodable JSON or a missing tools
\* array leaves the registry empty.
C26_RegistryHoldsTheValidEntries ==
    registry_loaded =>
        IF config_file.kind # "tools" THEN DOMAIN tools_registry = {}
        ELSE /\ DOMAIN tools_registry =
                   {config_file.tools[i].name : i \in ValidIndexes(config_file.tools)}
             /\ \A n \in DOMAIN tools_registry :
                   \E i \in ValidIndexes(config_file.tools) :
                       /\ config_file.tools[i].name = n
                       /\ tools_registry[n] = tool_data(config_file.tools[i])

(***************************************************************************)
(* Claims about family creation and profile updates (specification         *)
(* SpecCrud).                                                              *)
(***************************************************************************)
\* The tables are as they were before the call.
NothingPersisted == user_table = crud_call.users /\ family_table = crud_call.families

\* One family was added and the owner, and only the owner, now belongs to it.
FamilyAndOwnerPersisted ==
    \E f \in family_table :
        /\ family_table = crud_call.families \cup {f}
        /\ f \notin crud_call.families
        /\ f.join_code = crud_call.join_code
        /\ user_table = (crud_call.users \ {crud_call.owner})
                            \cup {[crud_call.owner EXCEPT !.family_id = f.id]}

\* C27: create_family_with_owner is all-or-nothing: after it returns or
\* fails, either the new family row exists and the owner's family_id is that
\* family's id, or neither the family row nor any change to the owner
\* persists; a call that fails (a join-code collision and a failed update of
\* the owner included) persists nothing.
C27_FamilyAndOwnerTogetherOrNeither ==
    crud_call.op = "create_family_with_owner" =>
        /\ FamilyAndOwnerPersisted \/ NothingPersisted
        /\ crud_call.result # Returned => NothingPersisted

\* C27 witness: an owner without a family asked for a family with a join code
\* no family has; the update of the owner failed and nothing was kept.
C27_Witness ==
    /\ crud_call.op = "create_family_with_owner"
    /\ crud_call.owner.family_id = NoneVal
    /\ \A f \in crud_call.families : f.join_code # crud_call.join_code
    /\ crud_call.result # Returned
    /\ NothingPersisted

\* C28: PUT /users/me changes only the caller's own user record and only
\* profile fields: after the call every user's role, family_id and parent_id
\* are what they were before it, whatever the body carries, and every record
\* but the caller's is unchanged.
C28_OwnProfileFieldsOnly ==
    crud_call.op = "update_user_me" =>
        /\ {r.id : r \in user_table} = {r.id : r \in crud_call.users}
        /\ \A before \in crud_call.users :
              \E after \in user_table :
                  /\ after.id = before.id
                  /\ after.role = before.role
                  /\ after.family_id = before.family_id
                  /\ after.parent_id = before.parent_id
                  /\ before.id # crud_call.user.id => after = before

\* C28 witness: a child in family f1 sent a body asking for the role parent
\* and the family f2, and is still a child of family f1.
C28_Witness ==
    /\ crud_call.op = "update_user_me"
    /\ crud_call.user.role = "child"
    /\ crud_call.input.role = "parent"
    /\ crud_call.input.family_id = "f2"
    /\ \E r \in user_table :
          r.id = crud_call.user.id /\ r.role = "child" /\ r.family_id = "f1"

====
